---- MODULE Spec2Model ----
(***************************************************************************)
(* EmojiDB (core/db.go, safety/safety_api.go): the in-memory table model,  *)
(* the seal / persist lifecycle, the schema engine and the safety log, as  *)
(* a state machine.  Every handler is one atomic action (the handlers run  *)
(* under table.Mu / db.Mu); the goroutine started by `go db.PersistClump`  *)
(* is an action of its own.  A second set of actions runs the handlers as  *)
(* concurrent calls, one step per code segment between lock operations.    *)
(***************************************************************************)
EXTENDS Integers, Sequences, FiniteSets, TLC

VARIABLES
    Schemas,      \* db.Schemas : table name -> Schema
    Tables,       \* db.Tables  : table name -> Table
    Orphans,      \* db.Orphans : table name -> sequence of SealedClump
    Key,          \* db.Key
    File,         \* db.File    : the framed records of the data file
    SafetyFile,   \* db.SafetyFile : the framed records of the safety log
    SchemaFile,   \* db.SchemaFile : the serialized schema map
    persistQ,     \* goroutines started by `go db.PersistClump`, not yet run
    now,          \* the latest reading of time.Now()
    ret,          \* the most recent call and what it returned
    pc,           \* per concurrent call: the code segment it runs next
    call,         \* per concurrent call: its arguments and locals
    dbMu,         \* db.Mu : the caller that holds it exclusively, or Free
    tableMu       \* table.Mu per table name, likewise

vars == <<Schemas, Tables, Orphans, Key, File, SafetyFile, SchemaFile,
          persistQ, now, ret, pc, call, dbMu, tableMu>>

\* The state of the database proper and that of the concurrent calls.
dataVars == <<Schemas, Tables, Orphans, Key, File, SafetyFile, SchemaFile,
              persistQ, now>>
lockVars == <<pc, call, dbMu, tableMu>>

----------------------------------------------------------------------------
(* Bounds of the model *)

\* HotHeap.MaxRows. The program passes 1000 (NewHotHeap(1000)); the model
\* scales the capacity down so that seals happen within the row bound.
Capacity == 2
\* No table ever holds more than MaxRows rows (guards of the inserting calls).
MaxRows == 3
\* No BulkInsert batch is longer than MaxBatch.
MaxBatch == 2
\* The safety log never holds more than MaxBackups records.
MaxBackups == 2
\* Clock readings are 0..MaxTime, in ticks of 1/TicksPerSecond second.
MaxTime == 2
\* A data file left by an earlier session holds at most MaxRecords whole
\* records (and possibly one more cut short).
MaxRecords == 2
\* Load is not called on a database that holds more than MaxHeld clumps of a
\* table name.
MaxHeld == 2
TicksPerSecond == 2

TableNames == {"users"}
FieldNames == {"id", "price"}
FieldTypes == {"int", "string"}
IdValues == {1, 2, 3}
Keys == {"k1"}

\* The concurrent callers.
Threads == {1, 2}

\* An unlocked sync.RWMutex.
Free == 0

\* A caller that runs no call.
Idle == [op |-> "idle"]

\* The zero value a Go map read yields for an absent key (row[f.Name]).
Nil == 0

----------------------------------------------------------------------------
(* Maps with a dynamic domain (Go maps) *)

EmptyMap == [x \in {} |-> {}]

Put(m, k, v) == [x \in DOMAIN m \cup {k} |-> IF x = k THEN v ELSE m[x]]

Remove(m, k) == [x \in DOMAIN m \ {k} |-> m[x]]

Range(s) == {s[i] : i \in DOMAIN s}

RECURSIVE Flatten(_)
Flatten(ss) == IF ss = <<>> THEN <<>> ELSE Head(ss) \o Flatten(Tail(ss))

----------------------------------------------------------------------------
(* Fields, schemas, rows *)

Field(n, t, u) == [Name |-> n, Type |-> t, Unique |-> u]

\* Every field list of distinct names over FieldNames.
AllFieldLists ==
    { <<Field(n, t, u)>> : n \in FieldNames, t \in FieldTypes, u \in BOOLEAN }
    \cup
    { <<Field(n1, t1, u1), Field(n2, t2, u2)>> :
        n1 \in FieldNames, n2 \in FieldNames, t1 \in FieldTypes,
        t2 \in FieldTypes, u1 \in BOOLEAN, u2 \in BOOLEAN }

NoDuplicateNames(fields) ==
    \A i, j \in DOMAIN fields : fields[i].Name = fields[j].Name => i = j

\* The field lists the schema calls of the stateful specifications draw from:
\* "id" first and an int, then possibly "price".
SchemaInputs ==
    { fl \in AllFieldLists :
        /\ NoDuplicateNames(fl)
        /\ fl[1].Name = "id" /\ fl[1].Type = "int"
        /\ Len(fl) = 2 => fl[1].Unique }

\* Rows: the complete rows, and rows that lack a field.
RowInputs ==
    { [id |-> i, price |-> 10] : i \in IdValues }
    \cup { [id |-> 1], [price |-> 10] }

Has(row, n) == n \in DOMAIN row

\* row[n] as Go reads it: the zero value when the key is absent.
Get(row, n) == IF n \in DOMAIN row THEN row[n] ELSE Nil

UniqueNames(fields) == {fields[i].Name : i \in {j \in DOMAIN fields : fields[j].Unique}}

NewSchema(fields) == [Version |-> 1, Fields |-> fields]

NewHotHeap(maxRows) == [Rows |-> <<>>, MaxRows |-> maxRows]

\* The SealedClump built from a HotHeap at seal time.
Seal(heap, schema) ==
    [Rows |-> heap.Rows, RowCount |-> Len(heap.Rows), SchemaVersion |-> schema.Version]

\* The logical row sequence of a table: sealed rows in seal order, then the HotHeap.
TableRows(table) ==
    Flatten([i \in DOMAIN table.SealedClumps |-> table.SealedClumps[i].Rows])
        \o table.HotHeap.Rows

AllRows(t) == TableRows(Tables[t])

----------------------------------------------------------------------------
(* Return values *)

Ok == [text |-> "nil", name |-> ""]

\* errors.New(text + name)
Err(text, name) == [text |-> text, name |-> name]

\* fmt.Errorf("row %d: " + text + "%s", i, name)
RowErr(i, text, name) == [text |-> text, name |-> name, row |-> i]

\* The error of a file operation that failed at the step.
IoErr(step) == Err("io error: ", step)

Returned(op, err) == [op |-> op, err |-> err]

\* Insert's return, with the record the call was given.
InsertReturned(record, err) == [op |-> "Insert", err |-> err, record |-> record]

\* Restore's return, with whether the call took db.Mu and how many records of
\* the safety log it read.
RestoreReturned(err, locked, read) ==
    [op |-> "Restore", err |-> err, locked |-> locked, read |-> read]

----------------------------------------------------------------------------
(* storage.PersistClump: one framed record appended to the data file, *)
(* encrypted under the key handed over. A record on disk is Whole when *)
(* all the symbols its size field declares are there, and Json when    *)
(* its plaintext deserializes.                                         *)

ClumpRecord(tableName, clump, key) ==
    [TableName |-> tableName, Clump |-> clump, Key |-> key,
     Whole |-> TRUE, Json |-> TRUE]

PersistClump(file, tableName, clump, key) ==
    Append(file, ClumpRecord(tableName, clump, key))

----------------------------------------------------------------------------
(* Insert (core/db.go 251-307) *)

\* The constraint loop without the uniqueness test.
RECURSIVE CheckPresenceOnly(_, _, _, _)
CheckPresenceOnly(fields, indices, record, i) ==
    IF i > Len(fields) THEN Ok
    ELSE IF ~Has(record, fields[i].Name)
         THEN Err("missing field: ", fields[i].Name)
         ELSE CheckPresenceOnly(fields, indices, record, i + 1)

\* The constraint loop over table.Schema.Fields, from field i on: the first
\* failing check in field order decides the error.
RECURSIVE CheckConstraints(_, _, _, _)
CheckConstraints(fields, indices, record, i) ==
    IF i > Len(fields) THEN Ok
    ELSE LET field == fields[i] IN
         IF ~Has(record, field.Name)
         THEN Err("missing field: ", field.Name)
         ELSE IF field.Unique /\ record[field.Name] \in indices[field.Name]
         THEN Err("unique constraint violation: ", field.Name)
         ELSE CheckConstraints(fields, indices, record, i + 1)

\* "Apply unique indices": record's value joins the index of every unique field.
ApplyIndices(indices, fields, record) ==
    [n \in DOMAIN indices |->
        IF n \in UniqueNames(fields) THEN indices[n] \cup {record[n]} ELSE indices[n]]

\* AutoFlush with the capacity test off by one (> for >=).
AutoFlushLate(table) ==
    IF Len(table.HotHeap.Rows) > table.HotHeap.MaxRows
    THEN [table EXCEPT
            !.SealedClumps = Append(@, Seal(table.HotHeap, table.Schema)),
            !.HotHeap = NewHotHeap(Capacity)]
    ELSE table

\* The capacity check after the append(s): at or over MaxRows the HotHeap
\* becomes a SealedClump and a fresh HotHeap replaces it.
AutoFlush(table) ==
    IF Len(table.HotHeap.Rows) >= table.HotHeap.MaxRows
    THEN [table EXCEPT
            !.SealedClumps = Append(@, Seal(table.HotHeap, table.Schema)),
            !.HotHeap = NewHotHeap(Capacity)]
    ELSE table

\* The clumps a call sealed: those persistence is dispatched for.
Dispatched(tableName, before, after) ==
    [i \in 1..(Len(after.SealedClumps) - Len(before.SealedClumps)) |->
        [TableName |-> tableName,
         Clump |-> after.SealedClumps[Len(before.SealedClumps) + i]]]

\* The table after a successful Insert of record.
InsertRow(table, record) ==
    AutoFlush([table EXCEPT
        !.UniqueIndices = ApplyIndices(@, table.Schema.Fields, record),
        !.HotHeap.Rows = Append(@, record)])

Insert(tableName, record) ==
    IF tableName \notin DOMAIN Tables
    THEN /\ ret' = InsertReturned(record, Err("table not found: ", tableName))
         /\ UNCHANGED <<Schemas, Tables, Orphans, Key, File, SafetyFile,
                        SchemaFile, persistQ, now>>
    ELSE LET table == Tables[tableName]
             err == CheckConstraints(table.Schema.Fields, table.UniqueIndices,
                                     record, 1)
             after == InsertRow(table, record)
         IN IF err # Ok
            THEN /\ ret' = InsertReturned(record, err)
                 /\ UNCHANGED <<Schemas, Tables, Orphans, Key, File, SafetyFile,
                                SchemaFile, persistQ, now>>
            ELSE /\ Tables' = [Tables EXCEPT ![tableName] = after]
                 /\ persistQ' = persistQ \o Dispatched(tableName, table, after)
                 /\ ret' = InsertReturned(record, Ok)
                 /\ UNCHANGED <<Schemas, Orphans, Key, File, SafetyFile,
                                SchemaFile, now>>

----------------------------------------------------------------------------
(* BulkInsert (core/db.go 309-369) *)

\* Whether an earlier row of the batch (j < i) holds val in field name.
DuplicateInBatch(records, i, name, val) ==
    \E j \in 1..(i - 1) : Get(records[j], name) = val

\* Row i of the batch against the schema fields from k on.
RECURSIVE ValidateRow(_, _, _, _, _)
ValidateRow(fields, indices, records, i, k) ==
    IF k > Len(fields) THEN Ok
    ELSE LET field == fields[k]
             record == records[i]
         IN IF ~Has(record, field.Name)
            THEN RowErr(i - 1, "missing field: ", field.Name)
            ELSE IF field.Unique /\ record[field.Name] \in indices[field.Name]
            THEN RowErr(i - 1, "unique constraint violation: ", field.Name)
            ELSE IF field.Unique
                    /\ DuplicateInBatch(records, i, field.Name, record[field.Name])
            THEN RowErr(i - 1, "duplicate value in batch for field: ", field.Name)
            ELSE ValidateRow(fields, indices, records, i, k + 1)

\* 1. Validation phase: the rows in batch order, from row i on.
RECURSIVE ValidateBatch(_, _, _, _)
ValidateBatch(fields, indices, records, i) ==
    IF i > Len(records) THEN Ok
    ELSE LET err == ValidateRow(fields, indices, records, i, 1)
         IN IF err # Ok THEN err
            ELSE ValidateBatch(fields, indices, records, i + 1)

\* ApplyBatch that appends the rows and leaves the unique indices alone.
RECURSIVE ApplyBatchNoIndex(_, _, _)
ApplyBatchNoIndex(table, records, i) ==
    IF i > Len(records) THEN table
    ELSE ApplyBatchNoIndex([table EXCEPT !.HotHeap.Rows = Append(@, records[i])],
                           records, i + 1)

\* 2. Application phase: every row's index updates and append, from row i on.
RECURSIVE ApplyBatch(_, _, _)
ApplyBatch(table, records, i) ==
    IF i > Len(records) THEN table
    ELSE ApplyBatch([table EXCEPT
            !.UniqueIndices = ApplyIndices(@, table.Schema.Fields, records[i]),
            !.HotHeap.Rows = Append(@, records[i])], records, i + 1)

\* The application phase with the capacity check after every row.
RECURSIVE BulkInsertRowsSealEach(_, _)
BulkInsertRowsSealEach(table, records) ==
    IF records = <<>> THEN table
    ELSE BulkInsertRowsSealEach(InsertRow(table, Head(records)), Tail(records))

\* The table after a successful BulkInsert: one capacity check at the end.
BulkInsertRows(table, records) == AutoFlush(ApplyBatch(table, records, 1))

\* BulkInsert that validates and applies row by row: the rows ahead of the
\* first invalid one stay applied when the call fails.
BulkInsertRowByRow(tableName, records) ==
    IF tableName \notin DOMAIN Tables
    THEN /\ ret' = Returned("BulkInsert", Err("table not found: ", tableName))
         /\ UNCHANGED <<Schemas, Tables, Orphans, Key, File, SafetyFile,
                        SchemaFile, persistQ, now>>
    ELSE LET table == Tables[tableName]
             err == ValidateBatch(table.Schema.Fields, table.UniqueIndices,
                                  records, 1)
             valid == IF err = Ok THEN Len(records) ELSE err.row
             after == BulkInsertRows(table, SubSeq(records, 1, valid))
         IN /\ Tables' = [Tables EXCEPT ![tableName] = after]
            /\ persistQ' = persistQ \o Dispatched(tableName, table, after)
            /\ ret' = Returned("BulkInsert", err)
            /\ UNCHANGED <<Schemas, Orphans, Key, File, SafetyFile,
                           SchemaFile, now>>

BulkInsert(tableName, records) ==
    IF tableName \notin DOMAIN Tables
    THEN /\ ret' = Returned("BulkInsert", Err("table not found: ", tableName))
         /\ UNCHANGED <<Schemas, Tables, Orphans, Key, File, SafetyFile,
                        SchemaFile, persistQ, now>>
    ELSE LET table == Tables[tableName]
             err == ValidateBatch(table.Schema.Fields, table.UniqueIndices,
                                  records, 1)
             after == BulkInsertRows(table, records)
         IN IF err # Ok
            THEN /\ ret' = Returned("BulkInsert", err)
                 /\ UNCHANGED <<Schemas, Tables, Orphans, Key, File, SafetyFile,
                                SchemaFile, persistQ, now>>
            ELSE /\ Tables' = [Tables EXCEPT ![tableName] = after]
                 /\ persistQ' = persistQ \o Dispatched(tableName, table, after)
                 /\ ret' = Returned("BulkInsert", Ok)
                 /\ UNCHANGED <<Schemas, Orphans, Key, File, SafetyFile,
                                SchemaFile, now>>

----------------------------------------------------------------------------
(* The goroutine of `go db.PersistClump(tableName, clump)` (db.go 303, 365, *)
(* 371-373): any dispatched goroutine may run next; it reads db.Key when it *)
(* runs.                                                                    *)

PersistAsync(i) ==
    /\ i \in DOMAIN persistQ
    /\ File' = PersistClump(File, persistQ[i].TableName, persistQ[i].Clump, Key)
    /\ persistQ' = [j \in 1..(Len(persistQ) - 1) |->
                        IF j < i THEN persistQ[j] ELSE persistQ[j + 1]]
    /\ UNCHANGED <<Schemas, Tables, Orphans, Key, SafetyFile, SchemaFile, now, ret>>

----------------------------------------------------------------------------
(* SaveSchemas (core/db.go 514-533): the schema file rewritten wholesale *)
(* with the serialized schema map.                                       *)

SaveSchemas(schemas) == schemas

----------------------------------------------------------------------------
(* DefineSchema (core/db.go 110-159) *)

\* A fresh, empty index for every unique field.
NewIndices(fields) == [n \in UniqueNames(fields) |-> {}]

\* The indices of a table that takes its orphans, left empty.
OrphanIndicesEmpty(fields, clumps) == [n \in UniqueNames(fields) |-> {}]

\* "Populate unique indices from restored data": row[f.Name] of every row of
\* every orphan clump, the zero value included when the row lacks the field.
OrphanIndices(fields, clumps) ==
    [n \in UniqueNames(fields) |->
        {Get(row, n) : row \in UNION {Range(clumps[i].Rows) : i \in DOMAIN clumps}}]

DefineSchema(tableName, fields) ==
    LET schema == NewSchema(fields)
        held == tableName \in DOMAIN Orphans
        orphans == IF held THEN Orphans[tableName] ELSE <<>>
    IN /\ Schemas' = Put(Schemas, tableName, schema)
       /\ IF tableName \in DOMAIN Tables
          THEN /\ Tables' = [Tables EXCEPT
                                ![tableName].Schema = schema,
                                ![tableName].UniqueIndices = NewIndices(fields)]
               /\ Orphans' = Orphans
          ELSE /\ Tables' = Put(Tables, tableName,
                    [Schema |-> schema,
                     HotHeap |-> NewHotHeap(Capacity),
                     SealedClumps |-> orphans,
                     UniqueIndices |-> IF held THEN OrphanIndices(fields, orphans)
                                       ELSE NewIndices(fields)])
               /\ Orphans' = Remove(Orphans, tableName)
       /\ SchemaFile' = SaveSchemas(Schemas')
       /\ ret' = Returned("DefineSchema", Ok)
       /\ UNCHANGED <<Key, File, SafetyFile, persistQ, now>>

----------------------------------------------------------------------------
(* DiffSchema (core/db.go 161-199) *)

\* currentFieldMap / newFieldMap: name -> Field, a later field of the same
\* name replacing an earlier one.
FieldMap(fields) ==
    [n \in {fields[i].Name : i \in DOMAIN fields} |->
        fields[CHOOSE i \in DOMAIN fields :
                  /\ fields[i].Name = n
                  /\ \A j \in DOMAIN fields : fields[j].Name = n => j <= i]]

Conflict(kind, name) == [kind |-> kind, name |-> name]

\* DiffFields that also flags an added field as destructive.
DiffFieldsAddDestructive(currentFields, newFields) ==
    LET currentFieldMap == FieldMap(currentFields)
        newFieldMap == FieldMap(newFields)
        mismatch == {i \in DOMAIN newFields :
                        /\ newFields[i].Name \in DOMAIN currentFieldMap
                        /\ currentFieldMap[newFields[i].Name].Type # newFields[i].Type}
        added == {i \in DOMAIN newFields : newFields[i].Name \notin DOMAIN currentFieldMap}
        removed == DOMAIN currentFieldMap \ DOMAIN newFieldMap
    IN [Compatiable |-> mismatch = {},
        Destructive |-> removed # {} \/ added # {},
        Conflicts |-> {Conflict("TYPE_MISMATCH", newFields[i].Name) : i \in mismatch}
                      \cup {Conflict("FIELD_ADD", newFields[i].Name) : i \in added}
                      \cup {Conflict("FIELD_REMOVE", n) : n \in removed}]

\* The report against the current schema. Conflicts is the set of the entries
\* reported (the order of the FIELD_REMOVE entries is Go's map order).
DiffFields(currentFields, newFields) ==
    LET currentFieldMap == FieldMap(currentFields)
        newFieldMap == FieldMap(newFields)
        mismatch == {i \in DOMAIN newFields :
                        /\ newFields[i].Name \in DOMAIN currentFieldMap
                        /\ currentFieldMap[newFields[i].Name].Type # newFields[i].Type}
        added == {i \in DOMAIN newFields : newFields[i].Name \notin DOMAIN currentFieldMap}
        removed == DOMAIN currentFieldMap \ DOMAIN newFieldMap
    IN [Compatiable |-> mismatch = {},
        Destructive |-> removed # {},
        Conflicts |-> {Conflict("TYPE_MISMATCH", newFields[i].Name) : i \in mismatch}
                      \cup {Conflict("FIELD_ADD", newFields[i].Name) : i \in added}
                      \cup {Conflict("FIELD_REMOVE", n) : n \in removed}]

DiffSchemaReport(schemas, tableName, newFields) ==
    IF tableName \notin DOMAIN schemas
    THEN [Compatiable |-> TRUE, Destructive |-> FALSE,
          Conflicts |-> {Conflict("TABLE_NEW", "")}]
    ELSE DiffFields(schemas[tableName].Fields, newFields)

DiffSchema(tableName, newFields) ==
    /\ ret' = [op |-> "DiffSchema",
               report |-> DiffSchemaReport(Schemas, tableName, newFields)]
    /\ UNCHANGED <<Schemas, Tables, Orphans, Key, File, SafetyFile, SchemaFile,
                   persistQ, now>>

----------------------------------------------------------------------------
(* SyncSchema (core/db.go 201-249) *)

\* "Recalculate unique indices from existing data": the values the rows hold
\* in each unique field, rows that lack the field contributing nothing.
RebuiltIndices(fields, rows) ==
    [n \in UniqueNames(fields) |-> {row[n] : row \in {r \in Range(rows) : Has(r, n)}}]

\* fmt.Errorf("incompatible schema change: %v", report.Conflicts)
IncompatibleErr(conflicts) ==
    [text |-> "incompatible schema change: ", name |-> "", conflicts |-> conflicts]

\* SyncSchema that registers the schema in db.Schemas before it looks at the
\* report.
SyncSchemaInstallFirst(tableName, newFields) ==
    LET report == DiffSchemaReport(Schemas, tableName, newFields)
        schema == NewSchema(newFields)
    IN /\ Schemas' = Put(Schemas, tableName, schema)
       /\ IF ~report.Compatiable
          THEN /\ ret' = Returned("SyncSchema",
                                  IncompatibleErr(report.Conflicts))
               /\ UNCHANGED <<Tables, SchemaFile>>
          ELSE /\ Tables' = IF tableName \in DOMAIN Tables
                            THEN [Tables EXCEPT
                                    ![tableName].Schema = schema,
                                    ![tableName].UniqueIndices =
                                        RebuiltIndices(newFields, AllRows(tableName))]
                            ELSE Tables
               /\ SchemaFile' = SaveSchemas(Schemas')
               /\ ret' = Returned("SyncSchema", Ok)
       /\ UNCHANGED <<Orphans, Key, File, SafetyFile, persistQ, now>>

SyncSchema(tableName, newFields) ==
    LET report == DiffSchemaReport(Schemas, tableName, newFields)
        schema == NewSchema(newFields)
    IN IF ~report.Compatiable
       THEN /\ ret' = Returned("SyncSchema", IncompatibleErr(report.Conflicts))
            /\ UNCHANGED <<Schemas, Tables, Orphans, Key, File, SafetyFile,
                           SchemaFile, persistQ, now>>
       ELSE /\ Schemas' = Put(Schemas, tableName, schema)
            /\ Tables' = IF tableName \in DOMAIN Tables
                         THEN [Tables EXCEPT
                                 ![tableName].Schema = schema,
                                 ![tableName].UniqueIndices =
                                     RebuiltIndices(newFields, AllRows(tableName))]
                         ELSE Tables
            /\ SchemaFile' = SaveSchemas(Schemas')
            /\ ret' = Returned("SyncSchema", Ok)
            /\ UNCHANGED <<Orphans, Key, File, SafetyFile, persistQ, now>>

\* The steps of SaveSchemas whose error it returns (the error of the Write
\* itself is overwritten by that of Sync, line 531-532).
SaveFaults == {"truncate", "seek", "sync"}

\* The schema file SaveSchemas leaves when the step fails.
SaveSchemasFailed(file, schemas, fault) ==
    CASE fault = "truncate" -> file
      [] fault = "seek" -> EmptyMap
      [] fault = "sync" -> SaveSchemas(schemas)

\* SyncSchema of a compatible change whose SaveSchemas fails at the step.
SyncSchemaSaveFails(tableName, newFields, fault) ==
    LET report == DiffSchemaReport(Schemas, tableName, newFields)
        schema == NewSchema(newFields)
    IN /\ report.Compatiable
       /\ Schemas' = Put(Schemas, tableName, schema)
       /\ Tables' = IF tableName \in DOMAIN Tables
                    THEN [Tables EXCEPT
                            ![tableName].Schema = schema,
                            ![tableName].UniqueIndices =
                                RebuiltIndices(newFields, AllRows(tableName))]
                    ELSE Tables
       /\ SchemaFile' = SaveSchemasFailed(SchemaFile, Schemas', fault)
       /\ ret' = Returned("SyncSchema", IoErr(fault))
       /\ UNCHANGED <<Orphans, Key, File, SafetyFile, persistQ, now>>

----------------------------------------------------------------------------
(* Flush (core/db.go 456-485) *)

\* A seal that folds the HotHeap into the last SealedClump when there is one.
FlushTableMerged(table) ==
    IF table.SealedClumps = <<>>
    THEN [table EXCEPT
            !.SealedClumps = Append(@, Seal(table.HotHeap, table.Schema)),
            !.HotHeap = NewHotHeap(Capacity)]
    ELSE LET n == Len(table.SealedClumps)
             last == table.SealedClumps[n]
         IN [table EXCEPT
                !.SealedClumps[n].Rows = last.Rows \o table.HotHeap.Rows,
                !.SealedClumps[n].RowCount = last.RowCount + Len(table.HotHeap.Rows),
                !.HotHeap = NewHotHeap(Capacity)]

\* The table after the out-of-band seal of a non-empty HotHeap.
FlushTable(table) ==
    [table EXCEPT
        !.SealedClumps = Append(@, Seal(table.HotHeap, table.Schema)),
        !.HotHeap = NewHotHeap(Capacity)]

\* Flush that hands the clump to the background path instead of writing it.
FlushDispatched(tableName) ==
    IF tableName \notin DOMAIN Tables
    THEN /\ ret' = Returned("Flush", Err("table not found", ""))
         /\ UNCHANGED <<Schemas, Tables, Orphans, Key, File, SafetyFile,
                        SchemaFile, persistQ, now>>
    ELSE LET table == Tables[tableName] IN
         IF Len(table.HotHeap.Rows) = 0
         THEN /\ ret' = Returned("Flush", Ok)
              /\ UNCHANGED <<Schemas, Tables, Orphans, Key, File, SafetyFile,
                             SchemaFile, persistQ, now>>
         ELSE /\ Tables' = [Tables EXCEPT ![tableName] = FlushTable(table)]
              /\ persistQ' = persistQ \o Dispatched(tableName, table, Tables'[tableName])
              /\ ret' = Returned("Flush", Ok)
              /\ UNCHANGED <<Schemas, Orphans, Key, File, SafetyFile, SchemaFile, now>>

Flush(tableName) ==
    IF tableName \notin DOMAIN Tables
    THEN /\ ret' = Returned("Flush", Err("table not found", ""))
         /\ UNCHANGED <<Schemas, Tables, Orphans, Key, File, SafetyFile,
                        SchemaFile, persistQ, now>>
    ELSE LET table == Tables[tableName] IN
         IF Len(table.HotHeap.Rows) = 0
         THEN /\ ret' = Returned("Flush", Ok)
              /\ UNCHANGED <<Schemas, Tables, Orphans, Key, File, SafetyFile,
                             SchemaFile, persistQ, now>>
         ELSE /\ Tables' = [Tables EXCEPT ![tableName] = FlushTable(table)]
              /\ File' = PersistClump(File, tableName,
                                      Seal(table.HotHeap, table.Schema), Key)
              /\ ret' = Returned("Flush", Ok)
              /\ UNCHANGED <<Schemas, Orphans, Key, SafetyFile, SchemaFile,
                             persistQ, now>>

----------------------------------------------------------------------------
(* ChangeKey (core/db.go 408-454) *)

\* What os.ReadFile of secure.pem yields: the master key Secure wrote, or
\* nothing when the file is missing.
NoPem == "missing"
MasterKeys == {"m1", "m2"}
NewKeys == {"k1", "k2"}

\* The step of ChangeKey at which the file system reports an error.
Faults == {"none", "truncate", "seek", "header", "persist", "sync"}

\* The SealedClumps of all tables, in the order the loop re-persists them.
RECURSIVE ClumpsOf(_, _)
ClumpsOf(tables, names) ==
    IF names = {} THEN <<>>
    ELSE LET n == CHOOSE x \in names : TRUE IN
         [i \in DOMAIN tables[n].SealedClumps |->
             [TableName |-> n, Clump |-> tables[n].SealedClumps[i]]]
             \o ClumpsOf(tables, names \ {n})

\* storage.InternalPersistClump of the first n of the clumps under the key.
RePersisted(clumps, n, key) ==
    [i \in 1..n |-> ClumpRecord(clumps[i].TableName, clumps[i].Clump, key)]

\* ChangeKey; fault names the step that fails and at the clump that fails
\* when the step is the re-persist loop.
ChangeKey(newKey, masterKey, actualMaster, fault, at) ==
    LET clumps == ClumpsOf(Tables, DOMAIN Tables) IN
    /\ fault = "persist" => at \in DOMAIN clumps
    /\ IF actualMaster = NoPem
       THEN /\ ret' = Returned("ChangeKey",
                        Err("security not initialized or secure.pem missing", ""))
            /\ UNCHANGED <<Key, File>>
       ELSE IF actualMaster # masterKey
       THEN /\ ret' = Returned("ChangeKey", Err("invalid master key provided", ""))
            /\ UNCHANGED <<Key, File>>
       ELSE IF fault = "truncate"
       THEN /\ ret' = Returned("ChangeKey", IoErr(fault))
            /\ UNCHANGED <<Key, File>>
       ELSE IF fault \in {"seek", "header"}
       THEN /\ ret' = Returned("ChangeKey", IoErr(fault))
            /\ File' = <<>>
            /\ UNCHANGED Key
       ELSE IF fault = "persist"
       THEN /\ ret' = Returned("ChangeKey", IoErr(fault))
            /\ File' = RePersisted(clumps, at - 1, newKey)
            /\ UNCHANGED Key
       ELSE /\ ret' = Returned("ChangeKey", IF fault = "sync" THEN IoErr(fault) ELSE Ok)
            /\ File' = RePersisted(clumps, Len(clumps), newKey)
            /\ Key' = newKey
    /\ UNCHANGED <<Schemas, Tables, Orphans, SafetyFile, SchemaFile, persistQ, now>>

----------------------------------------------------------------------------
(* DumpAsJSON (core/db.go 487-512) *)

\* json.MarshalIndent of allRows: a nil slice (no row appended) marshals to
\* null, any other to the array of the rows in order.
MarshalRows(allRows) == [null |-> allRows = <<>>, items |-> allRows]

\* The HotHeap rows ahead of the sealed ones.
DumpRowsHotFirst(table) ==
    table.HotHeap.Rows
        \o Flatten([i \in DOMAIN table.SealedClumps |-> table.SealedClumps[i].Rows])

\* allRows: the rows of the SealedClumps in order, then those of the HotHeap.
DumpRows(table) ==
    Flatten([i \in DOMAIN table.SealedClumps |-> table.SealedClumps[i].Rows])
        \o table.HotHeap.Rows

DumpReturned(json, err) == [op |-> "DumpAsJSON", err |-> err, json |-> json]

DumpAsJSON(tableName) ==
    /\ ret' = IF tableName \notin DOMAIN Tables
              THEN DumpReturned("", Err("table not found", ""))
              ELSE DumpReturned(MarshalRows(DumpRows(Tables[tableName])), Ok)
    /\ UNCHANGED <<Schemas, Tables, Orphans, Key, File, SafetyFile, SchemaFile,
                   persistQ, now>>

----------------------------------------------------------------------------
(* The safety log (safety/safety_api.go) *)

\* A filter of the request shim: the rows whose field holds the value.
Filters == { [field |-> "id", value |-> 1], [field |-> "price", value |-> 10] }

Matches(filter, row) == Has(row, filter.field) /\ row[filter.field] = filter.value

\* The patches of Update.
Patches == { [price |-> 99], [id |-> 1] }

\* for k, v := range update { row[k] = v }
Patched(row, update) ==
    [k \in DOMAIN row \cup DOMAIN update |->
        IF k \in DOMAIN update THEN update[k] ELSE row[k]]

\* A record of the safety log, framed as those of the data file: Whole when
\* all the symbols its size field declares are there, Json when its plaintext
\* deserializes.
SafetyBackup(tableName, timestamp, row, key) ==
    [TableName |-> tableName, Timestamp |-> timestamp, Data |-> row, Key |-> key,
     Whole |-> TRUE, Json |-> TRUE]

\* BatchBackupForSafety: one SafetyBackup record per row, stamped with the
\* current time, encrypted under the database key, appended to the safety log.
BatchBackupForSafety(log, tableName, rows, timestamp, key) ==
    log \o [i \in DOMAIN rows |-> SafetyBackup(tableName, timestamp, rows[i], key)]

\* HotHeap.Rows after the loop of Update: every matching row patched in place.
UpdatedRows(rows, filter, update) ==
    [i \in DOMAIN rows |->
        IF Matches(filter, rows[i]) THEN Patched(rows[i], update) ELSE rows[i]]

\* toBackup after the loop of Update. A core.Row is a Go map: toBackup holds
\* the very maps the loop then writes the patch into (lines 31-34), so what is
\* handed to BatchBackupForSafety at line 39 are the rows as patched.
UpdateBackup(rows, filter, update) ==
    LET hit(row) == Matches(filter, row)
        kept == SelectSeq(rows, hit)
    IN [i \in DOMAIN kept |-> Patched(kept[i], update)]

Update(tableName, filter, update, timestamp) ==
    IF tableName \notin DOMAIN Tables
    THEN /\ ret' = Returned("Update", Err("table not found", ""))
         /\ UNCHANGED <<Schemas, Tables, Orphans, Key, File, SafetyFile,
                        SchemaFile, persistQ, now>>
    ELSE LET rows == Tables[tableName].HotHeap.Rows
             toBackup == UpdateBackup(rows, filter, update)
         IN /\ Tables' = [Tables EXCEPT ![tableName].HotHeap.Rows =
                              UpdatedRows(rows, filter, update)]
            /\ IF Len(toBackup) > 0
               THEN /\ SafetyFile' = BatchBackupForSafety(SafetyFile, tableName,
                                                          toBackup, timestamp, Key)
                    /\ now' = timestamp
               ELSE UNCHANGED <<SafetyFile, now>>
            /\ ret' = Returned("Update", Ok)
            /\ UNCHANGED <<Schemas, Orphans, Key, File, SchemaFile, persistQ>>

\* newRows and toBackup after the loop of Delete.
\* Update whose BatchBackupForSafety returns an error: the rows are patched
\* (lines 29-36) by the time the write of the backups is attempted (39).
UpdateBackupFails(tableName, filter, update) ==
    /\ tableName \in DOMAIN Tables
    /\ LET rows == Tables[tableName].HotHeap.Rows IN
       /\ Len(UpdateBackup(rows, filter, update)) > 0
       /\ Tables' = [Tables EXCEPT ![tableName].HotHeap.Rows =
                        UpdatedRows(rows, filter, update)]
    /\ ret' = Returned("Update", IoErr("safety log"))
    /\ UNCHANGED <<Schemas, Orphans, Key, File, SafetyFile, SchemaFile, persistQ, now>>

\* newRows with the kept rows in reverse order.
RECURSIVE DeleteKeptReversed(_, _)
DeleteKeptReversed(rows, filter) ==
    IF rows = <<>> THEN <<>>
    ELSE IF Matches(filter, Head(rows))
         THEN DeleteKeptReversed(Tail(rows), filter)
         ELSE Append(DeleteKeptReversed(Tail(rows), filter), Head(rows))

DeleteKept(rows, filter) ==
    LET miss(row) == ~Matches(filter, row) IN SelectSeq(rows, miss)

DeleteBackup(rows, filter) ==
    LET hit(row) == Matches(filter, row) IN SelectSeq(rows, hit)

Delete(tableName, filter, timestamp) ==
    IF tableName \notin DOMAIN Tables
    THEN /\ ret' = Returned("Delete", Err("table not found", ""))
         /\ UNCHANGED <<Schemas, Tables, Orphans, Key, File, SafetyFile,
                        SchemaFile, persistQ, now>>
    ELSE LET rows == Tables[tableName].HotHeap.Rows
             toBackup == DeleteBackup(rows, filter)
         IN /\ Tables' = [Tables EXCEPT ![tableName].HotHeap.Rows =
                              DeleteKept(rows, filter)]
            /\ IF Len(toBackup) > 0
               THEN /\ SafetyFile' = BatchBackupForSafety(SafetyFile, tableName,
                                                          toBackup, timestamp, Key)
                    /\ now' = timestamp
               ELSE UNCHANGED <<SafetyFile, now>>
            /\ ret' = Returned("Delete", Ok)
            /\ UNCHANGED <<Schemas, Orphans, Key, File, SchemaFile, persistQ>>

\* Delete whose BatchBackupForSafety returns an error: the rows are removed
\* (line 66) by the time the write of the backups is attempted (69).
DeleteBackupFails(tableName, filter) ==
    /\ tableName \in DOMAIN Tables
    /\ LET rows == Tables[tableName].HotHeap.Rows IN
       /\ Len(DeleteBackup(rows, filter)) > 0
       /\ Tables' = [Tables EXCEPT ![tableName].HotHeap.Rows = DeleteKept(rows, filter)]
    /\ ret' = Returned("Delete", IoErr("safety log"))
    /\ UNCHANGED <<Schemas, Orphans, Key, File, SafetyFile, SchemaFile, persistQ, now>>

\* time.Time.Truncate(time.Second), on ticks.
Truncate(t) == t - (t % TicksPerSecond)

\* crypto.Decrypt succeeds under the key the record was encrypted with.
Decrypts(record, key) == record.Key = key

\* What the scan of Restore yields when crypto.DecodeOne fails inside a
\* payload (lines 100-104).
ReadFailed == -1

\* A scan that keeps the last record that qualifies instead of the first.
RestoreScanLast(log, key, tables, timestamp, i) ==
    LET hits == {j \in i..Len(log) :
                    /\ log[j].Whole /\ Decrypts(log[j], key) /\ log[j].Json
                    /\ Truncate(log[j].Timestamp) = Truncate(timestamp)
                    /\ log[j].TableName \in DOMAIN tables}
    IN IF hits = {} THEN 0 ELSE CHOOSE j \in hits : \A k \in hits : k <= j

\* The scan loop of Restore from record i on: the index of the first record
\* that decrypts, deserializes, carries the requested second and names a
\* defined table; 0 when the log is exhausted; ReadFailed at a record whose
\* payload ends before its declared size.
RECURSIVE RestoreScan(_, _, _, _, _)
RestoreScan(log, key, tables, timestamp, i) ==
    IF i > Len(log) THEN 0
    ELSE IF ~log[i].Whole THEN ReadFailed
    ELSE IF /\ Decrypts(log[i], key)
            /\ log[i].Json
            /\ Truncate(log[i].Timestamp) = Truncate(timestamp)
            /\ log[i].TableName \in DOMAIN tables
         THEN i
         ELSE RestoreScan(log, key, tables, timestamp, i + 1)

\* The tables after the row of a SafetyBackup record is re-appended to the
\* HotHeap of its table.
Restored(tables, record) ==
    [tables EXCEPT ![record.TableName].HotHeap.Rows = Append(@, record.Data)]

\* Restore once confirmed (lines 80-127): the scan under db.Mu.
RestoreAccepted(timestamp) ==
    LET found == RestoreScan(SafetyFile, Key, Tables, timestamp, 1) IN
    IF found = ReadFailed
    THEN /\ ret' = RestoreReturned(IoErr("decode"), TRUE, Len(SafetyFile))
         /\ UNCHANGED <<Schemas, Tables, Orphans, Key, File, SafetyFile,
                        SchemaFile, persistQ, now>>
    ELSE IF found = 0
    THEN /\ ret' = RestoreReturned(Err("recovery point not found", ""), TRUE,
                                   Len(SafetyFile))
         /\ UNCHANGED <<Schemas, Tables, Orphans, Key, File, SafetyFile,
                        SchemaFile, persistQ, now>>
    ELSE /\ Tables' = Restored(Tables, SafetyFile[found])
         /\ ret' = RestoreReturned(Ok, TRUE, found)
         /\ UNCHANGED <<Schemas, Orphans, Key, File, SafetyFile,
                        SchemaFile, persistQ, now>>

\* Restore that scans whether or not the caller confirmed.
RestoreUnconfirmed(timestamp, accepted) == RestoreAccepted(timestamp)

Restore(timestamp, accepted) ==
    IF ~accepted
    THEN /\ ret' = RestoreReturned(Err("recovery aborted", ""), FALSE, 0)
         /\ UNCHANGED <<Schemas, Tables, Orphans, Key, File, SafetyFile,
                        SchemaFile, persistQ, now>>
    ELSE RestoreAccepted(timestamp)

----------------------------------------------------------------------------
(* Load (core/db.go 375-393) *)

\* The handler that drops the clump of a table that is not defined.
handleClumpAttachOnly(tables, orphans, tableName, data) ==
    IF ~data.Json
    THEN [err |-> Err("invalid character", ""), Tables |-> tables, Orphans |-> orphans]
    ELSE [err |-> Ok,
          Tables |-> IF tableName \in DOMAIN tables
                     THEN [tables EXCEPT ![tableName].SealedClumps = Append(@, data.Clump)]
                     ELSE tables,
          Orphans |-> orphans]

\* The closure Load hands to storage.Load: the clump goes to its table, or
\* to the orphans of the table's name.
handleClump(tables, orphans, tableName, data) ==
    IF ~data.Json
    THEN [err |-> Err("invalid character", ""), Tables |-> tables, Orphans |-> orphans]
    ELSE IF tableName \in DOMAIN tables
         THEN [err |-> Ok,
               Tables |-> [tables EXCEPT ![tableName].SealedClumps = Append(@, data.Clump)],
               Orphans |-> orphans]
         ELSE [err |-> Ok,
               Tables |-> tables,
               Orphans |-> Put(orphans, tableName,
                               (IF tableName \in DOMAIN orphans
                                THEN orphans[tableName] ELSE <<>>) \o <<data.Clump>>)]

\* storage.Load: the records from offset zero; a record cut short ends the
\* replay cleanly, a record that does not decrypt or that the handler refuses
\* is skipped.
RECURSIVE Replay(_, _, _, _, _)
Replay(file, key, tables, orphans, i) ==
    IF i > Len(file) \/ ~file[i].Whole
    THEN [err |-> Ok, Tables |-> tables, Orphans |-> orphans]
    ELSE IF ~Decrypts(file[i], key)
         THEN Replay(file, key, tables, orphans, i + 1)
         ELSE LET handled == handleClump(tables, orphans, file[i].TableName, file[i])
              IN Replay(file, key, handled.Tables, handled.Orphans, i + 1)

Load ==
    LET replayed == Replay(File, Key, Tables, Orphans, 1) IN
    /\ Tables' = replayed.Tables
    /\ Orphans' = replayed.Orphans
    /\ ret' = Returned("Load", replayed.err)
    /\ UNCHANGED <<Schemas, Key, File, SafetyFile, SchemaFile, persistQ, now>>

----------------------------------------------------------------------------
(* The state Open leaves for a new database: no schema, no table, no orphan, *)
(* empty files (core/db.go 81-92).                                           *)

Init ==
    /\ Schemas = EmptyMap
    /\ Tables = EmptyMap
    /\ Orphans = EmptyMap
    /\ Key \in Keys
    /\ File = <<>>
    /\ SafetyFile = <<>>
    /\ SchemaFile = EmptyMap
    /\ persistQ = <<>>
    /\ now = 0
    /\ ret = Returned("Open", Ok)
    /\ pc = [th \in Threads |-> "idle"]
    /\ call = [th \in Threads |-> Idle]
    /\ dbMu = Free
    /\ tableMu = [t \in TableNames |-> Free]

----------------------------------------------------------------------------
(* Open (core/db.go 47-108) on a data file an earlier session left *)

StaleKey == "k0"

\* The clumps an earlier session sealed.
OldClumps ==
    {Seal([Rows |-> <<[id |-> i, price |-> 10]>>, MaxRows |-> Capacity], NewSchema(<<>>)) :
        i \in {1, 2}}

\* The whole records of such a file: written under the key or under another
\* one, deserializable or not.
WholeRecords ==
    {ClumpRecord(t, c, Key) : t \in TableNames, c \in OldClumps}
        \cup {ClumpRecord(t, c, StaleKey) : t \in TableNames, c \in {CHOOSE c \in OldClumps : TRUE}}
        \cup {[ClumpRecord(t, c, Key) EXCEPT !.Json = FALSE] :
                 t \in TableNames, c \in {CHOOSE c \in OldClumps : TRUE}}

\* A record the crash cut short.
CutRecords == {[r EXCEPT !.Whole = FALSE] : r \in {CHOOSE r \in WholeRecords : r.Key = Key /\ r.Json}}

\* The files: whole records, then possibly a record cut short.
DataFiles ==
    LET whole == UNION {[1..n -> WholeRecords] : n \in 0..MaxRecords}
    IN whole \cup {w \o <<c>> : w \in whole, c \in CutRecords}

InitLoad ==
    /\ Schemas = EmptyMap
    /\ Tables = EmptyMap
    /\ Key \in Keys
    /\ File \in DataFiles
    /\ Orphans = Replay(File, Key, EmptyMap, EmptyMap, 1).Orphans
    /\ SafetyFile = <<>>
    /\ SchemaFile = EmptyMap
    /\ persistQ = <<>>
    /\ now = 0
    /\ ret = Returned("Open", Ok)
    /\ pc = [th \in Threads |-> "idle"]
    /\ call = [th \in Threads |-> Idle]
    /\ dbMu = Free
    /\ tableMu = [t \in TableNames |-> Free]

\* The schema files an earlier session left: empty, or the schema of a table.
SchemaFiles ==
    {EmptyMap} \cup {[t \in {name} |-> NewSchema(fl)] :
                        name \in TableNames, fl \in {<<Field("id", "int", TRUE)>>,
                                                      <<Field("id", "int", FALSE)>>}}

\* Open after db.Load() (line 94), before db.LoadSchemas() (line 103).
InitOpen ==
    /\ Schemas = EmptyMap
    /\ Tables = EmptyMap
    /\ Key \in Keys
    /\ File \in DataFiles
    /\ Orphans = Replay(File, Key, EmptyMap, EmptyMap, 1).Orphans
    /\ SafetyFile = <<>>
    /\ SchemaFile \in SchemaFiles
    /\ persistQ = <<>>
    /\ now = 0
    /\ ret = Returned("Load", Ok)
    /\ pc = [th \in Threads |-> IF th = 1 THEN "schemas" ELSE "idle"]
    /\ call = [th \in Threads |-> Idle]
    /\ dbMu = Free
    /\ tableMu = [t \in TableNames |-> Free]

\* The table LoadSchemas builds for a schema of the file (lines 555-588).
LoadedTable(schema, orphans, tableName) ==
    [Schema |-> schema,
     HotHeap |-> NewHotHeap(Capacity),
     SealedClumps |-> IF tableName \in DOMAIN orphans THEN orphans[tableName] ELSE <<>>,
     UniqueIndices |-> IF tableName \in DOMAIN orphans
                       THEN OrphanIndices(schema.Fields, orphans[tableName])
                       ELSE NewIndices(schema.Fields)]

\* LoadSchemas (core/db.go 535-591) as Open calls it: an empty schema file
\* changes nothing; otherwise db.Schemas is the map of the file and every
\* table of it that is not defined is built and takes its orphans.
LoadSchemas ==
    /\ pc[1] = "schemas"
    /\ IF SchemaFile = EmptyMap
       THEN UNCHANGED <<Schemas, Tables, Orphans>>
       ELSE /\ Schemas' = SchemaFile
            /\ Tables' = [t \in DOMAIN Tables \cup DOMAIN SchemaFile |->
                             IF t \in DOMAIN Tables THEN Tables[t]
                             ELSE LoadedTable(SchemaFile[t], Orphans, t)]
            /\ Orphans' = [t \in DOMAIN Orphans \ (DOMAIN SchemaFile \ DOMAIN Tables) |->
                              Orphans[t]]
    /\ pc' = [pc EXCEPT ![1] = "idle"]
    /\ ret' = Returned("Open", Ok)
    /\ UNCHANGED <<Key, File, SafetyFile, SchemaFile, persistQ, now, call, dbMu, tableMu>>

\* The clumps the database holds for a table name.
Held(tableName) ==
    (IF tableName \in DOMAIN Tables THEN Tables[tableName].SealedClumps ELSE <<>>)
        \o (IF tableName \in DOMAIN Orphans THEN Orphans[tableName] ELSE <<>>)

----------------------------------------------------------------------------
(* The calls of the API, their inputs drawn from the sets given *)

\* The model's bound on the clumps replayed.
LoadCall == (\A t \in TableNames : Len(Held(t)) <= MaxHeld) /\ Load
    /\ UNCHANGED lockVars

\* The model's row bound.
Room(tableName, n) ==
    tableName \in DOMAIN Tables => Len(AllRows(tableName)) + n <= MaxRows

\* The model's bound on the safety log.
LogRoom(tableName, filter) ==
    tableName \in DOMAIN Tables =>
        Len(SafetyFile) + Len(DeleteBackup(Tables[tableName].HotHeap.Rows, filter))
            <= MaxBackups

Times == 0..MaxTime

Batches == UNION {[1..n -> RowInputs] : n \in 0..MaxBatch}

\* The inputs of the specification of the safety log.
SafetySchemas == {fl \in SchemaInputs : Len(fl) = 2 /\ fl[2].Type = "int"}

SafetyRows == {[id |-> i, price |-> 10] : i \in {1, 2}}

InsertCall(rows) == \E t \in TableNames, r \in rows : Room(t, 1) /\ Insert(t, r)
    /\ UNCHANGED lockVars

BulkInsertCall ==
    \E t \in TableNames, rs \in Batches : Room(t, Len(rs)) /\ BulkInsert(t, rs)
    /\ UNCHANGED lockVars

PersistStep == \E i \in DOMAIN persistQ : PersistAsync(i) /\ UNCHANGED lockVars

\* DefineSchema of a table that is not defined yet.
DefineNewCall(lists) ==
    \E t \in TableNames, fl \in lists : t \notin DOMAIN Tables /\ DefineSchema(t, fl)
    /\ UNCHANGED lockVars

DefineSchemaCall == \E t \in TableNames, fl \in SchemaInputs : DefineSchema(t, fl)
    /\ UNCHANGED lockVars

SyncSchemaCall == \E t \in TableNames, fl \in SchemaInputs : SyncSchema(t, fl)
    /\ UNCHANGED lockVars

SyncSchemaSaveFailsCall ==
    \E t \in TableNames, fl \in SchemaInputs, fault \in SaveFaults :
        SyncSchemaSaveFails(t, fl, fault) /\ UNCHANGED lockVars

DiffSchemaCall == \E t \in TableNames, fl \in AllFieldLists : DiffSchema(t, fl)
    /\ UNCHANGED lockVars

FlushCall == \E t \in TableNames : Flush(t) /\ UNCHANGED lockVars

DumpCall == \E t \in TableNames : DumpAsJSON(t) /\ UNCHANGED lockVars

ChangeKeyCall ==
    \E k \in NewKeys, mk \in MasterKeys, pem \in MasterKeys \cup {NoPem},
       fault \in Faults, at \in 1..MaxRows :
        ChangeKey(k, mk, pem, fault, at) /\ UNCHANGED lockVars

UpdateCall ==
    \E t \in TableNames, f \in Filters, u \in Patches, ts \in Times :
        ts >= now /\ LogRoom(t, f) /\ Update(t, f, u, ts) /\ UNCHANGED lockVars

DeleteCall ==
    \E t \in TableNames, f \in Filters, ts \in Times :
        ts >= now /\ LogRoom(t, f) /\ Delete(t, f, ts) /\ UNCHANGED lockVars

UpdateBackupFailsCall ==
    \E t \in TableNames, f \in Filters, u \in Patches : UpdateBackupFails(t, f, u)
    /\ UNCHANGED lockVars

DeleteBackupFailsCall ==
    \E t \in TableNames, f \in Filters : DeleteBackupFails(t, f)
    /\ UNCHANGED lockVars

RestoreCall ==
    \E ts \in Times, accepted \in BOOLEAN :
        (\A t \in DOMAIN Tables : Len(AllRows(t)) < MaxRows) /\ Restore(ts, accepted)
        /\ UNCHANGED lockVars

\* Open on a safety log an earlier session left.
\* The tables the earlier session wrote backups of.
LogTables == {"users", "orders"}

\* The whole records of such a log: written under the key, under another
\* one, or not deserializable.
OldBackups ==
    {SafetyBackup(t, ts, [id |-> (ts % 2) + 1, price |-> 10], Key) :
        t \in LogTables, ts \in Times}
        \cup {SafetyBackup("users", 0, [id |-> 1, price |-> 10], StaleKey)}
        \cup {[SafetyBackup("users", 0, [id |-> 1, price |-> 10], Key) EXCEPT !.Json = FALSE]}

\* A backup the crash cut short.
CutBackups ==
    {[SafetyBackup("users", 0, [id |-> 1, price |-> 10], Key) EXCEPT !.Whole = FALSE]}

\* The logs: whole records, then possibly a record cut short.
SafetyLogs ==
    LET whole == UNION {[1..n -> OldBackups] : n \in 0..MaxRecords}
    IN whole \cup {w \o <<c>> : w \in whole, c \in CutBackups}

InitSafety ==
    /\ Schemas = EmptyMap
    /\ Tables = EmptyMap
    /\ Orphans = EmptyMap
    /\ Key \in Keys
    /\ File = <<>>
    /\ SafetyFile \in SafetyLogs
    /\ SchemaFile = EmptyMap
    /\ persistQ = <<>>
    /\ now = 0
    /\ ret = Returned("Open", Ok)
    /\ pc = [th \in Threads |-> "idle"]
    /\ call = [th \in Threads |-> Idle]
    /\ dbMu = Free
    /\ tableMu = [t \in TableNames |-> Free]

\* DefineSchema of a table of the old safety log.
DefineLogCall ==
    \E t \in LogTables, fl \in {fl \in SafetySchemas : ~fl[2].Unique} :
        t \notin DOMAIN Tables /\ DefineSchema(t, fl) /\ UNCHANGED lockVars

\* DefineSchema once Open has returned.
DefineOpenedCall == pc[1] = "idle" /\ DefineSchemaCall

\* BulkInsert of rows that have every field.
BulkSafetyCall ==
    \E t \in TableNames, rs \in UNION {[1..n -> SafetyRows] : n \in 1..MaxBatch} :
        Room(t, Len(rs)) /\ BulkInsert(t, rs) /\ UNCHANGED lockVars

\* SyncSchema to a schema of the same fields.
SyncSafetyCall ==
    \E t \in TableNames, fl \in SafetySchemas : SyncSchema(t, fl) /\ UNCHANGED lockVars

\* ChangeKey with the master key of secure.pem, no file operation failing.
RotateCall ==
    \E k \in NewKeys \ Keys, mk \in MasterKeys :
        ChangeKey(k, mk, mk, "none", 1) /\ UNCHANGED lockVars

\* Update and Delete of the rows of one id, the clock standing still.
UpdateOneCall ==
    \E t \in TableNames :
        LET f == [field |-> "id", value |-> 1] IN
        LogRoom(t, f) /\ Update(t, f, [price |-> 99], now)
        /\ UNCHANGED lockVars

DeleteOneCall ==
    \E t \in TableNames :
        LET f == [field |-> "id", value |-> 1] IN
        LogRoom(t, f) /\ Delete(t, f, now) /\ UNCHANGED lockVars

\* Restore, confirmed.
RestoreConfirmedCall ==
    \E ts \in Times :
        (\A t \in DOMAIN Tables : Len(AllRows(t)) < MaxRows) /\ Restore(ts, TRUE)
        /\ UNCHANGED lockVars

----------------------------------------------------------------------------
(* Concurrent calls: each handler as the sequence of its code segments     *)
(* between lock operations.  A lookup under db.Mu.RLock is one step, taken *)
(* when no caller holds db.Mu exclusively.                                 *)

Goto(th, stage) == pc' = [pc EXCEPT ![th] = stage]

\* The call of th returns.
Done(th) ==
    /\ pc' = [pc EXCEPT ![th] = "idle"]
    /\ call' = [call EXCEPT ![th] = Idle]

\* defer table.Mu.Unlock() / table.Mu.Unlock()
Unlock(th) == tableMu' = [tableMu EXCEPT ![call[th].table] = Free]

\* The rows a call in flight may still add to its table.
Pending(th) ==
    CASE call[th].op = "Insert" -> 1
      [] call[th].op = "BulkInsert" -> Len(call[th].records)
      [] call[th].op = "Restore" -> 1
      [] OTHER -> 0

\* The model's row bound, counting the calls in flight.
RoomFor(th, n) ==
    \A t \in DOMAIN Tables :
        \A o \in Threads \ {th} : Len(AllRows(t)) + Pending(o) + n <= MaxRows

\* The calls a caller may start, each at its first stage.
InsertCalls ==
    {[op |-> "Insert", stage |-> "lookup", table |-> t, record |-> r] :
        t \in TableNames, r \in SafetyRows}

DefineCalls ==
    {[op |-> "DefineSchema", stage |-> "section", table |-> t, fields |-> fl] :
        t \in TableNames, fl \in SafetySchemas}

\* The calls that install a schema and save the schema file.
SchemaCalls ==
    DefineCalls
    \cup {[op |-> "SyncSchema", stage |-> "diff", table |-> t, fields |-> fl] :
        t \in TableNames, fl \in SafetySchemas}

\* DefineSchema and SyncSchema with field lists that disagree on the type of
\* a field.
TypedCalls ==
    LET lists == {fl \in SchemaInputs : Len(fl) = 2} IN
    {[op |-> "DefineSchema", stage |-> "section", table |-> t, fields |-> fl] :
        t \in TableNames, fl \in lists}
    \cup {[op |-> "SyncSchema", stage |-> "diff", table |-> t, fields |-> fl] :
        t \in TableNames, fl \in lists}

\* The calls on the rows and the schema of a table.
RaceCalls ==
    InsertCalls \cup DefineCalls
    \cup {[op |-> "BulkInsert", stage |-> "lookup", table |-> t, records |-> <<r>>] :
        t \in TableNames, r \in SafetyRows}
    \cup {[op |-> "Flush", stage |-> "lookup", table |-> t] : t \in TableNames}
    \cup {[op |-> "DumpAsJSON", stage |-> "lookup", table |-> t] : t \in TableNames}
    \cup {[op |-> "SyncSchema", stage |-> "diff", table |-> t, fields |-> fl] :
        t \in TableNames, fl \in SafetySchemas}

\* The calls that take a table.Mu first: those of the caller that writes rows.
WriterCalls ==
    InsertCalls
    \cup {c \in DefineCalls : ~c.fields[2].Unique}
    \cup {[op |-> "Update", stage |-> "lookup", table |-> t, filter |-> f, update |-> u] :
        t \in TableNames, f \in {[field |-> "id", value |-> 1]}, u \in {[price |-> 99]}}
    \cup {[op |-> "Delete", stage |-> "lookup", table |-> t, filter |-> f] :
        t \in TableNames, f \in {[field |-> "id", value |-> 1]}}

\* The calls that take db.Mu first: those of the caller that maintains the
\* database.
KeeperCalls ==
    {[op |-> "Restore", stage |-> "start", timestamp |-> ts, accepted |-> a] :
        ts \in Times, a \in {TRUE}}
    \cup {[op |-> "ChangeKey", stage |-> "start", newKey |-> k, masterKey |-> mk,
           actualMaster |-> mk] : k \in Keys, mk \in {"m1"}}

LockCalls(th) == IF th = 1 THEN WriterCalls ELSE KeeperCalls

StartCall(th, calls) ==
    /\ pc[th] = "idle"
    /\ \E c \in calls :
          /\ c.op = "Insert" => RoomFor(th, 1)
          /\ c.op = "BulkInsert" => RoomFor(th, Len(c.records))
          /\ c.op = "Restore" => RoomFor(th, 1)
          /\ c.op \in {"Update", "Delete"} => LogRoom(c.table, c.filter)
          /\ pc' = [pc EXCEPT ![th] = c.stage]
          /\ call' = [call EXCEPT ![th] = c]
    /\ UNCHANGED <<dataVars, ret, dbMu, tableMu>>

\* What a call returns when its table is not defined.
NotFound(c) ==
    CASE c.op = "Insert" ->
             InsertReturned(c.record, Err("table not found: ", c.table))
      [] c.op = "BulkInsert" -> Returned(c.op, Err("table not found: ", c.table))
      [] c.op = "DumpAsJSON" -> DumpReturned("", Err("table not found", ""))
      [] OTHER -> Returned(c.op, Err("table not found", ""))

\* db.Mu.RLock(); table, ok := db.Tables[tableName]; db.Mu.RUnlock()
Lookup(th) ==
    /\ pc[th] = "lookup"
    /\ dbMu = Free
    /\ IF call[th].table \notin DOMAIN Tables
       THEN Done(th) /\ ret' = NotFound(call[th])
       ELSE /\ Goto(th, IF call[th].op = "DumpAsJSON" THEN "read" ELSE "lock")
            /\ UNCHANGED <<call, ret>>
    /\ UNCHANGED <<dataVars, dbMu, tableMu>>

\* table.Mu.Lock()
TableLock(th) ==
    /\ pc[th] = "lock"
    /\ tableMu[call[th].table] = Free
    /\ tableMu' = [tableMu EXCEPT ![call[th].table] = th]
    /\ Goto(th, IF call[th].op = "Insert" THEN "check" ELSE "body")
    /\ UNCHANGED <<dataVars, ret, call, dbMu>>

\* Insert, lines 263-275.
InsertCheck(th) ==
    /\ pc[th] = "check"
    /\ LET table == Tables[call[th].table]
           err == CheckConstraints(table.Schema.Fields, table.UniqueIndices,
                                   call[th].record, 1)
       IN IF err # Ok
          THEN Done(th) /\ Unlock(th) /\ ret' = InsertReturned(call[th].record, err)
          ELSE Goto(th, "apply") /\ UNCHANGED <<call, ret, tableMu>>
    /\ UNCHANGED <<dataVars, dbMu>>

\* Insert, lines 277-282.
InsertApply(th) ==
    /\ pc[th] = "apply"
    /\ Tables' = [Tables EXCEPT ![call[th].table].UniqueIndices =
                     ApplyIndices(@, Tables[call[th].table].Schema.Fields,
                                  call[th].record)]
    /\ Goto(th, "append")
    /\ UNCHANGED <<Schemas, Orphans, Key, File, SafetyFile, SchemaFile, persistQ,
                   now, ret, call, dbMu, tableMu>>

\* Insert, lines 284-306.
InsertAppend(th) ==
    /\ pc[th] = "append"
    /\ LET table == Tables[call[th].table]
           after == AutoFlush([table EXCEPT !.HotHeap.Rows = Append(@, call[th].record)])
       IN /\ Tables' = [Tables EXCEPT ![call[th].table] = after]
          /\ persistQ' = persistQ \o Dispatched(call[th].table, table, after)
    /\ Done(th) /\ Unlock(th)
    /\ ret' = InsertReturned(call[th].record, Ok)
    /\ UNCHANGED <<Schemas, Orphans, Key, File, SafetyFile, SchemaFile, now, dbMu>>

\* BulkInsert, lines 321-368.
BulkInsertBody(th) ==
    /\ pc[th] = "body" /\ call[th].op = "BulkInsert"
    /\ LET table == Tables[call[th].table]
           err == ValidateBatch(table.Schema.Fields, table.UniqueIndices,
                                call[th].records, 1)
           after == BulkInsertRows(table, call[th].records)
       IN IF err # Ok
          THEN ret' = Returned("BulkInsert", err) /\ UNCHANGED <<Tables, persistQ>>
          ELSE /\ Tables' = [Tables EXCEPT ![call[th].table] = after]
               /\ persistQ' = persistQ \o Dispatched(call[th].table, table, after)
               /\ ret' = Returned("BulkInsert", Ok)
    /\ Done(th) /\ Unlock(th)
    /\ UNCHANGED <<Schemas, Orphans, Key, File, SafetyFile, SchemaFile, now, dbMu>>

\* Flush, lines 465-482.
FlushBody(th) ==
    /\ pc[th] = "body" /\ call[th].op = "Flush"
    /\ LET table == Tables[call[th].table] IN
       IF Len(table.HotHeap.Rows) = 0
       THEN /\ Done(th)
            /\ ret' = Returned("Flush", Ok)
            /\ UNCHANGED Tables
       ELSE /\ Tables' = [Tables EXCEPT ![call[th].table] = FlushTable(table)]
            /\ pc' = [pc EXCEPT ![th] = "persist"]
            /\ call' = [call EXCEPT ![th] =
                           [op |-> "Flush", table |-> call[th].table,
                            clump |-> Seal(table.HotHeap, table.Schema)]]
            /\ UNCHANGED ret
    /\ Unlock(th)
    /\ UNCHANGED <<Schemas, Orphans, Key, File, SafetyFile, SchemaFile, persistQ,
                   now, dbMu>>

\* Flush, line 484: storage.PersistClump(db.File, &db.Mu, ...).
FlushPersist(th) ==
    /\ pc[th] = "persist"
    /\ dbMu = Free
    /\ File' = PersistClump(File, call[th].table, call[th].clump, Key)
    /\ Done(th)
    /\ ret' = Returned("Flush", Ok)
    /\ UNCHANGED <<Schemas, Tables, Orphans, Key, SafetyFile, SchemaFile, persistQ,
                   now, dbMu, tableMu>>

\* DumpAsJSON, lines 496-511, under table.Mu.RLock.
DumpRead(th) ==
    /\ pc[th] = "read"
    /\ tableMu[call[th].table] = Free
    /\ ret' = DumpReturned(MarshalRows(DumpRows(Tables[call[th].table])), Ok)
    /\ Done(th)
    /\ UNCHANGED <<dataVars, dbMu, tableMu>>

\* Update, lines 28-38, and Delete, lines 57-68: the scan under table.Mu.
SafetyBody(th) ==
    /\ pc[th] = "body" /\ call[th].op \in {"Update", "Delete"}
    /\ LET c == call[th]
           rows == Tables[c.table].HotHeap.Rows
           toBackup == IF c.op = "Update" THEN UpdateBackup(rows, c.filter, c.update)
                       ELSE DeleteBackup(rows, c.filter)
           kept == IF c.op = "Update" THEN UpdatedRows(rows, c.filter, c.update)
                   ELSE DeleteKept(rows, c.filter)
       IN /\ Tables' = [Tables EXCEPT ![c.table].HotHeap.Rows = kept]
          /\ IF Len(toBackup) = 0
             THEN Done(th) /\ Unlock(th) /\ ret' = Returned(c.op, Ok)
             ELSE /\ pc' = [pc EXCEPT ![th] = "backup"]
                  /\ call' = [call EXCEPT ![th] =
                                 [op |-> c.op, table |-> c.table, toBackup |-> toBackup]]
                  /\ UNCHANGED <<ret, tableMu>>
    /\ UNCHANGED <<Schemas, Orphans, Key, File, SafetyFile, SchemaFile, persistQ,
                   now, dbMu>>

\* BatchBackupForSafety, called with table.Mu held: the write of the safety
\* log, serialized through db.Mu.
SafetyBackupWrite(th) ==
    /\ pc[th] = "backup"
    /\ dbMu = Free
    /\ \E ts \in Times :
          /\ ts >= now
          /\ SafetyFile' = BatchBackupForSafety(SafetyFile, call[th].table,
                                                call[th].toBackup, ts, Key)
          /\ now' = ts
    /\ Done(th) /\ Unlock(th)
    /\ ret' = Returned(call[th].op, Ok)
    /\ UNCHANGED <<Schemas, Tables, Orphans, Key, File, SchemaFile, persistQ, dbMu>>

\* Restore, lines 76-80: the confirmation, then db.Mu.Lock().
RestoreStart(th) ==
    /\ pc[th] = "start" /\ call[th].op = "Restore"
    /\ IF ~call[th].accepted
       THEN /\ Done(th)
            /\ ret' = RestoreReturned(Err("recovery aborted", ""), FALSE, 0)
            /\ UNCHANGED dbMu
       ELSE /\ dbMu = Free
            /\ dbMu' = th
            /\ Goto(th, "scan")
            /\ UNCHANGED <<call, ret>>
    /\ UNCHANGED <<dataVars, tableMu>>

\* The table whose lock the scan of Restore takes: that of the record found.
RestoreTarget(th) ==
    LET found == RestoreScan(SafetyFile, Key, Tables, call[th].timestamp, 1)
    IN IF found \in {0, ReadFailed} THEN "" ELSE SafetyFile[found].TableName

\* Restore, lines 82-127: the scan with db.Mu held; table.Mu.Lock() at the
\* record found.
RestoreScanLocked(th) ==
    /\ pc[th] = "scan"
    /\ LET found == RestoreScan(SafetyFile, Key, Tables, call[th].timestamp, 1) IN
       IF found = ReadFailed
       THEN /\ ret' = RestoreReturned(IoErr("decode"), TRUE, Len(SafetyFile))
            /\ UNCHANGED Tables
       ELSE IF found = 0
       THEN /\ ret' = RestoreReturned(Err("recovery point not found", ""), TRUE,
                                      Len(SafetyFile))
            /\ UNCHANGED Tables
       ELSE /\ tableMu[RestoreTarget(th)] = Free
            /\ Tables' = Restored(Tables, SafetyFile[found])
            /\ ret' = RestoreReturned(Ok, TRUE, found)
    /\ dbMu' = Free
    /\ Done(th)
    /\ UNCHANGED <<Schemas, Orphans, Key, File, SafetyFile, SchemaFile, persistQ,
                   now, tableMu>>

\* ChangeKey, lines 409-438: the master key, db.Mu.Lock(), the file reset
\* and the new key.
ChangeKeyStart(th) ==
    /\ pc[th] = "start" /\ call[th].op = "ChangeKey"
    /\ IF call[th].actualMaster # call[th].masterKey
       THEN /\ Done(th)
            /\ ret' = Returned("ChangeKey", Err("invalid master key provided", ""))
            /\ UNCHANGED <<File, Key, dbMu>>
       ELSE /\ dbMu = Free
            /\ dbMu' = th
            /\ File' = <<>>
            /\ Key' = call[th].newKey
            /\ Goto(th, "tables")
            /\ UNCHANGED <<call, ret>>
    /\ UNCHANGED <<Schemas, Tables, Orphans, SafetyFile, SchemaFile, persistQ, now,
                   tableMu>>

\* ChangeKey, lines 441-453: table.Mu.RLock() of every table with db.Mu
\* held, the clumps re-persisted.
ChangeKeyTables(th) ==
    /\ pc[th] = "tables"
    /\ \A t \in DOMAIN Tables : tableMu[t] = Free
    /\ LET clumps == ClumpsOf(Tables, DOMAIN Tables)
       IN File' = RePersisted(clumps, Len(clumps), Key)
    /\ dbMu' = Free
    /\ Done(th)
    /\ ret' = Returned("ChangeKey", Ok)
    /\ UNCHANGED <<Schemas, Tables, Orphans, Key, SafetyFile, SchemaFile, persistQ,
                   now, tableMu>>

\* DefineSchema, lines 111-156: the section under db.Mu.Lock().
DefineSection(th) ==
    /\ pc[th] = "section" /\ call[th].op = "DefineSchema"
    /\ dbMu = Free
    /\ LET tableName == call[th].table
           fields == call[th].fields
           schema == NewSchema(fields)
           held == tableName \in DOMAIN Orphans
           orphans == IF held THEN Orphans[tableName] ELSE <<>>
       IN /\ Schemas' = Put(Schemas, tableName, schema)
          /\ IF tableName \in DOMAIN Tables
             THEN /\ Tables' = [Tables EXCEPT
                                   ![tableName].Schema = schema,
                                   ![tableName].UniqueIndices = NewIndices(fields)]
                  /\ Orphans' = Orphans
             ELSE /\ Tables' = Put(Tables, tableName,
                       [Schema |-> schema,
                        HotHeap |-> NewHotHeap(Capacity),
                        SealedClumps |-> orphans,
                        UniqueIndices |-> IF held THEN OrphanIndices(fields, orphans)
                                          ELSE NewIndices(fields)])
                  /\ Orphans' = Remove(Orphans, tableName)
    /\ Goto(th, "save")
    /\ UNCHANGED <<Key, File, SafetyFile, SchemaFile, persistQ, now, ret, call,
                   dbMu, tableMu>>

\* SyncSchema, lines 202-205: DiffSchema under db.Mu.RLock().
SyncDiff(th) ==
    /\ pc[th] = "diff"
    /\ dbMu = Free
    /\ LET report == DiffSchemaReport(Schemas, call[th].table, call[th].fields) IN
       IF ~report.Compatiable
       THEN Done(th) /\ ret' = Returned("SyncSchema", IncompatibleErr(report.Conflicts))
       ELSE Goto(th, "section") /\ UNCHANGED <<call, ret>>
    /\ UNCHANGED <<dataVars, dbMu, tableMu>>

\* SyncSchema, lines 207-246: the section under db.Mu.Lock().
SyncSection(th) ==
    /\ pc[th] = "section" /\ call[th].op = "SyncSchema"
    /\ dbMu = Free
    /\ LET tableName == call[th].table
           schema == NewSchema(call[th].fields)
       IN /\ Schemas' = Put(Schemas, tableName, schema)
          /\ Tables' = IF tableName \in DOMAIN Tables
                       THEN [Tables EXCEPT
                               ![tableName].Schema = schema,
                               ![tableName].UniqueIndices =
                                   RebuiltIndices(call[th].fields, AllRows(tableName))]
                       ELSE Tables
    /\ Goto(th, "save")
    /\ UNCHANGED <<Orphans, Key, File, SafetyFile, SchemaFile, persistQ, now, ret,
                   call, dbMu, tableMu>>

\* db.SaveSchemas(), lines 514-533, after the section.
SaveStep(th) ==
    /\ pc[th] = "save"
    /\ dbMu = Free
    /\ SchemaFile' = SaveSchemas(Schemas)
    /\ Done(th)
    /\ ret' = Returned(call[th].op, Ok)
    /\ UNCHANGED <<Schemas, Tables, Orphans, Key, File, SafetyFile, persistQ, now,
                   dbMu, tableMu>>

\* SaveSchemas, lines 515-517: db.Schemas serialized under db.Mu.RLock(),
\* the lock released before the file is touched.
SaveMarshal(th) ==
    /\ pc[th] = "save"
    /\ dbMu = Free
    /\ call' = [call EXCEPT ![th] = [data |-> SaveSchemas(Schemas)] @@ @]
    /\ Goto(th, "write")
    /\ UNCHANGED <<dataVars, ret, dbMu, tableMu>>

\* SaveSchemas, lines 522-532: under db.Mu.Lock() the file truncated and the
\* bytes serialized earlier written.
SaveWrite(th) ==
    /\ pc[th] = "write"
    /\ dbMu = Free
    /\ SchemaFile' = call[th].data
    /\ Done(th)
    /\ ret' = Returned(call[th].op, Ok)
    /\ UNCHANGED <<Schemas, Tables, Orphans, Key, File, SafetyFile, persistQ, now,
                   dbMu, tableMu>>

\* The goroutine of `go db.PersistClump`: the append under db.Mu.
PersistLocked ==
    /\ dbMu = Free
    /\ \E i \in DOMAIN persistQ : PersistAsync(i)
    /\ UNCHANGED lockVars

\* The goroutine of an auto-seal starts: db.PersistClump, line 372, evaluates
\* the argument db.Key and calls storage.PersistClump, which has not taken
\* db.Mu yet.
PersistBegin ==
    /\ pc[2] = "idle"
    /\ \E i \in DOMAIN persistQ :
          /\ call' = [call EXCEPT ![2] = [op |-> "PersistClump",
                                          table |-> persistQ[i].TableName,
                                          clump |-> persistQ[i].Clump,
                                          key |-> Key]]
          /\ persistQ' = [j \in 1..(Len(persistQ) - 1) |->
                              IF j < i THEN persistQ[j] ELSE persistQ[j + 1]]
    /\ Goto(2, "persist")
    /\ UNCHANGED <<Schemas, Tables, Orphans, Key, File, SafetyFile, SchemaFile,
                   now, ret, dbMu, tableMu>>

\* The goroutine appends its record under db.Mu with the key it was handed.
PersistWrite ==
    /\ pc[2] = "persist" /\ call[2].op = "PersistClump"
    /\ dbMu = Free
    /\ File' = PersistClump(File, call[2].table, call[2].clump, call[2].key)
    /\ Done(2)
    /\ UNCHANGED <<Schemas, Tables, Orphans, Key, SafetyFile, SchemaFile, persistQ,
                   now, ret, dbMu, tableMu>>

----------------------------------------------------------------------------
(* Specifications *)

\* Insert and BulkInsert on freshly defined tables.
NextInsert ==
    \/ DefineNewCall(SchemaInputs)
    \/ InsertCall(RowInputs)
    \/ BulkInsertCall
    \/ PersistStep

SpecInsert == Init /\ [][NextInsert]_vars

\* Load on the file an earlier session left, before and after the tables
\* are defined.
NextLoad ==
    \/ DefineNewCall(SafetySchemas)
    \/ LoadCall

SpecLoad == InitLoad /\ [][NextLoad]_vars

\* Insert alone on freshly defined tables.
NextSeal ==
    \/ DefineNewCall(SchemaInputs)
    \/ InsertCall(RowInputs)
    \/ PersistStep

SpecSeal == Init /\ [][NextSeal]_vars

\* Sealing, by capacity and by Flush, and the persistence of the clumps.
NextFlush ==
    \/ DefineNewCall(SafetySchemas)
    \/ InsertCall(RowInputs)
    \/ BulkInsertCall
    \/ FlushCall
    \/ DumpCall
    \/ PersistStep

SpecFlush == Init /\ [][NextFlush]_vars

\* Key rotation over the clumps of a table.
NextKey ==
    \/ DefineNewCall(SafetySchemas)
    \/ InsertCall(SafetyRows)
    \/ FlushCall
    \/ PersistStep
    \/ ChangeKeyCall

SpecKey == Init /\ [][NextKey]_vars

\* Every call that names a table, on tables defined or not.
NextErrors ==
    \/ DefineNewCall(SafetySchemas)
    \/ InsertCall(RowInputs)
    \/ BulkInsertCall
    \/ UpdateCall
    \/ DeleteCall
    \/ FlushCall
    \/ DumpCall
    \/ PersistStep

SpecErrors == Init /\ [][NextErrors]_vars

\* SyncSchema on tables defined or not, the schema file failing or not.
NextSync ==
    \/ DefineNewCall(SchemaInputs)
    \/ SyncSchemaCall
    \/ SyncSchemaSaveFailsCall
    \/ InsertCall(SafetyRows)
    \/ PersistStep

SpecSync == Init /\ [][NextSync]_vars

\* Insert, BulkInsert, Flush and DumpAsJSON of one caller beside
\* DefineSchema and SyncSchema of another.
NextRace ==
    \/ \E th \in Threads :
          \/ StartCall(th, RaceCalls)
          \/ Lookup(th)
          \/ TableLock(th)
          \/ InsertCheck(th)
          \/ InsertApply(th)
          \/ InsertAppend(th)
          \/ BulkInsertBody(th)
          \/ FlushBody(th)
          \/ FlushPersist(th)
          \/ DumpRead(th)
          \/ DefineSection(th)
          \/ SyncDiff(th)
          \/ SyncSection(th)
          \/ SaveStep(th)
    \/ PersistLocked

SpecRace == Init /\ [][NextRace]_vars

\* Update, Delete, Restore and ChangeKey of two callers on tables filled by
\* Insert.
NextLocks ==
    \/ \E th \in Threads :
          \/ StartCall(th, LockCalls(th))
          \/ Lookup(th)
          \/ TableLock(th)
          \/ InsertCheck(th)
          \/ InsertApply(th)
          \/ InsertAppend(th)
          \/ SafetyBody(th)
          \/ SafetyBackupWrite(th)
          \/ RestoreStart(th)
          \/ RestoreScanLocked(th)
          \/ ChangeKeyStart(th)
          \/ ChangeKeyTables(th)
          \/ DefineSection(th)
          \/ SaveStep(th)
    \/ PersistLocked

SpecLocks == Init /\ [][NextLocks]_vars

\* Every call that reads or writes the rows of a table, one at a time.
NextClumps ==
    \/ DefineNewCall(SafetySchemas)
    \/ InsertCall(SafetyRows)
    \/ BulkSafetyCall
    \/ UpdateOneCall
    \/ DeleteOneCall
    \/ FlushCall
    \/ RestoreConfirmedCall
    \/ SyncSafetyCall
    \/ RotateCall
    \/ PersistStep

SpecClumps == Init /\ [][NextClumps]_vars

\* Open on the files of an earlier session, then DefineSchema of the tables
\* the schema file did not name.
NextOpen ==
    \/ LoadSchemas
    \/ DefineOpenedCall

SpecOpen == InitOpen /\ [][NextOpen]_vars

\* Key rotation on the data file of an earlier session, its tables defined
\* or not yet.
NextRotate ==
    \/ DefineNewCall(SafetySchemas)
    \/ RotateCall

SpecRotate == InitLoad /\ [][NextRotate]_vars

\* Key rotation while the persistence of an auto-seal is pending.
NextPending ==
    \/ DefineNewCall(SafetySchemas)
    \/ InsertCall(SafetyRows)
    \/ FlushCall
    \/ PersistBegin
    \/ PersistWrite
    \/ RotateCall

SpecPending == Init /\ [][NextPending]_vars

\* DefineSchema and SyncSchema of two callers, each followed by its
\* SaveSchemas.
NextSave ==
    \E th \in Threads :
        \/ StartCall(th, SchemaCalls)
        \/ DefineSection(th)
        \/ SyncDiff(th)
        \/ SyncSection(th)
        \/ SaveMarshal(th)
        \/ SaveWrite(th)

SpecSave == Init /\ [][NextSave]_vars

\* SyncSchema of one caller beside DefineSchema and SyncSchema of another,
\* the field types differing.
NextTypes ==
    \E th \in Threads :
        \/ StartCall(th, TypedCalls)
        \/ DefineSection(th)
        \/ SyncDiff(th)
        \/ SyncSection(th)
        \/ SaveMarshal(th)
        \/ SaveWrite(th)

SpecTypes == Init /\ [][NextTypes]_vars

\* Restore from the safety log of an earlier session.
NextRestore ==
    \/ DefineLogCall
    \/ RestoreCall

SpecRestore == InitSafety /\ [][NextRestore]_vars

\* Update, Delete and Restore on tables filled by Insert.
NextSafety ==
    \/ DefineNewCall(SafetySchemas)
    \/ InsertCall(SafetyRows)
    \/ UpdateCall
    \/ DeleteCall
    \/ RestoreCall
    \/ PersistStep

SpecSafety == Init /\ [][NextSafety]_vars

\* Update and Delete, the write of the safety log succeeding or failing.
NextBackup ==
    \/ DefineNewCall(SafetySchemas)
    \/ InsertCall(SafetyRows)
    \/ UpdateCall
    \/ DeleteCall
    \/ UpdateBackupFailsCall
    \/ DeleteBackupFailsCall
    \/ PersistStep

SpecBackup == Init /\ [][NextBackup]_vars

\* DiffSchema against every schema of distinct field names.
NextDiff ==
    \/ DefineNewCall({fl \in AllFieldLists : NoDuplicateNames(fl)})
    \/ DiffSchemaCall

SpecDiff == Init /\ [][NextDiff]_vars

\* Schema definition and migration on tables that hold rows.
NextSchema ==
    \/ DefineSchemaCall
    \/ SyncSchemaCall
    \/ InsertCall(RowInputs)
    \/ FlushCall
    \/ PersistStep

SpecSchema == Init /\ [][NextSchema]_vars

----------------------------------------------------------------------------
(* Properties *)

\* The values the rows of table t hold in field n.
ValuesOf(t, n) == {Get(row, n) : row \in Range(AllRows(t))}

\* The unique indices of table t are those of its schema's unique fields, and
\* each holds exactly the values its field takes over the rows of t.
IndexExact(t) ==
    /\ DOMAIN Tables[t].UniqueIndices = UniqueNames(Tables[t].Schema.Fields)
    /\ \A n \in UniqueNames(Tables[t].Schema.Fields) :
          Tables[t].UniqueIndices[n] = ValuesOf(t, n)

\* C1: on a freshly defined table, after any sequence of Insert and BulkInsert
\* calls, the unique index of every unique field equals the set of that
\* field's values over all rows (sealed and hot).
C1_IndexExactAfterInserts == \A t \in DOMAIN Tables : IndexExact(t)

\* A table with a unique field whose rows lie in a SealedClump and in the
\* HotHeap, the last of them put there by a successful BulkInsert.
C1_Witness ==
    \E t \in DOMAIN Tables :
        /\ "id" \in DOMAIN Tables[t].UniqueIndices
        /\ Cardinality(Tables[t].UniqueIndices["id"]) > Capacity
        /\ Tables[t].SealedClumps # <<>>
        /\ Tables[t].HotHeap.Rows # <<>>
        /\ ret = Returned("BulkInsert", Ok)

\* C2: a BulkInsert that returns an error leaves the HotHeap, the
\* SealedClumps and the unique indices of the table (and everything else of
\* the database) as they were, wherever the invalid row stands in the batch.
C2_BulkInsertAllOrNothing ==
    [][\A t \in TableNames, rs \in Batches :
          (BulkInsert(t, rs) /\ ret'.err # Ok) =>
              UNCHANGED <<Schemas, Tables, Orphans, Key, File, SafetyFile,
                          SchemaFile, persistQ, now>>]_vars

\* A BulkInsert has failed on the second row of its batch, on a table that
\* holds rows.
C2_Witness ==
    /\ ret.op = "BulkInsert"
    /\ "row" \in DOMAIN ret.err
    /\ ret.err.row = 1
    /\ \E t \in DOMAIN Tables : Tables[t].HotHeap.Rows # <<>>

\* The shape of a table that Capacity, resp. Capacity + 1, Insert calls filled.
SealShape(t) ==
    LET table == Tables[t]
        n == Len(AllRows(t))
    IN /\ n < Capacity => table.SealedClumps = <<>>
       /\ n = Capacity =>
            /\ Len(table.SealedClumps) = 1
            /\ Len(table.SealedClumps[1].Rows) = Capacity
            /\ table.HotHeap.Rows = <<>>
       /\ n = Capacity + 1 =>
            /\ Len(table.SealedClumps) = 1
            /\ Len(table.SealedClumps[1].Rows) = Capacity
            /\ Len(table.HotHeap.Rows) = 1

\* C3: Capacity successful Inserts into an empty table leave one SealedClump
\* holding those rows and an empty HotHeap; one more leaves that clump and a
\* HotHeap holding exactly the last row. (Every successful Insert puts its
\* row at the end of the table's row sequence, so the rows counted are the
\* rows inserted, in call order.)
C3_SealThreshold ==
    /\ [](\A t \in DOMAIN Tables : SealShape(t))
    /\ [][\A t \in TableNames, r \in RowInputs :
            (t \in DOMAIN Tables /\ Insert(t, r) /\ ret'.err = Ok) =>
                /\ AllRows(t)' = Append(AllRows(t), r)
                /\ Len(AllRows(t)) = Capacity =>
                      /\ Tables'[t].HotHeap.Rows = <<r>>
                      /\ Tables'[t].SealedClumps = Tables[t].SealedClumps]_vars

\* Capacity + 1 rows inserted: one clump of Capacity rows, one hot row, the
\* row of the last Insert.
C3_Witness ==
    \E t \in DOMAIN Tables :
        /\ Len(Tables[t].SealedClumps) = 1
        /\ Len(Tables[t].SealedClumps[1].Rows) = Capacity
        /\ ret.op = "Insert" /\ ret.err = Ok
        /\ Tables[t].HotHeap.Rows = <<ret.record>>

\* C4: after an Update that changes a field of a HotHeap row, a confirmed
\* Restore with the timestamp of the Update's backup leaves the table holding
\* the mutated row and a re-appended copy of the row as it was before the
\* Update. Stated for an Update that matches one row and whose backup is the
\* record the Restore picks.
C4_RestoreReturnsOriginal ==
    [][\A t \in TableNames, f \in Filters, u \in Patches, ts \in Times :
          (t \in DOMAIN Tables /\ Update(t, f, u, ts)) =>
              LET rows == Tables[t].HotHeap.Rows
                  hit == {i \in DOMAIN rows : Matches(f, rows[i])}
                  found == RestoreScan(SafetyFile', Key', Tables', ts, 1)
              IN \A i \in hit :
                    (/\ hit = {i}
                     /\ \E k \in DOMAIN u : Has(rows[i], k) /\ rows[i][k] # u[k]
                     /\ found = Len(SafetyFile) + 1)
                    => LET after == TableRows(Restored(Tables', SafetyFile'[found])[t])
                       IN /\ Patched(rows[i], u) \in Range(after)
                          /\ rows[i] \in Range(after)]_vars

\* C5: Restore with accepted = FALSE returns "recovery aborted", takes no
\* lock, reads no record of the safety log and changes nothing.
C5_UnconfirmedRestoreIsNoOp ==
    [][\A ts \in Times :
          Restore(ts, FALSE) =>
              /\ ret' = RestoreReturned(Err("recovery aborted", ""), FALSE, 0)
              /\ UNCHANGED <<Schemas, Tables, Orphans, Key, File, SafetyFile,
                             SchemaFile, persistQ, now>>]_vars

\* An unconfirmed Restore has returned while the safety log held a record of
\* a defined table that a confirmed Restore would have re-appended.
C5_Witness ==
    /\ ret = RestoreReturned(Err("recovery aborted", ""), FALSE, 0)
    /\ \E i \in DOMAIN SafetyFile :
          /\ SafetyFile[i].TableName \in DOMAIN Tables
          /\ Decrypts(SafetyFile[i], Key)

\* C6: in every reachable state the unique index of every unique field of
\* every table holds exactly the values the field takes over the table's rows.
C6_IndexExactAlways ==
    \A t \in TableNames : t \in DOMAIN Tables => IndexExact(t)

\* Some field of both lists has the same name and different types.
TypeChanged(currentFields, newFields) ==
    \E i \in DOMAIN currentFields, j \in DOMAIN newFields :
        /\ currentFields[i].Name = newFields[j].Name
        /\ currentFields[i].Type # newFields[j].Type

\* Some field of the current list has no field of its name in the new list.
FieldDropped(currentFields, newFields) ==
    \E i \in DOMAIN currentFields :
        \A j \in DOMAIN newFields : newFields[j].Name # currentFields[i].Name

\* C7: against a current schema (of distinct field names) and any proposed
\* field list, DiffSchema reports Compatible = FALSE exactly when a field of
\* both changes type and Destructive = TRUE exactly when a current field is
\* absent from the proposal; added fields are reported and change neither
\* flag; no state changes.
C7_DiffSchemaReport ==
    [][\A t \in TableNames, nf \in AllFieldLists :
          (t \in DOMAIN Schemas /\ DiffSchema(t, nf)) =>
              LET cur == Schemas[t].Fields IN
              /\ ret'.report.Compatiable = ~TypeChanged(cur, nf)
              /\ ret'.report.Destructive = FieldDropped(cur, nf)
              /\ \A j \in DOMAIN nf :
                    (\A i \in DOMAIN cur : cur[i].Name # nf[j].Name)
                        <=> Conflict("FIELD_ADD", nf[j].Name) \in ret'.report.Conflicts
              /\ UNCHANGED <<Schemas, Tables, Orphans, Key, File, SafetyFile,
                             SchemaFile, persistQ, now>>]_vars

\* DiffSchema has reported a proposal that adds a field, changes a type and
\* drops nothing: incompatible, not destructive.
C7_Witness ==
    /\ ret.op = "DiffSchema"
    /\ ~ret.report.Compatiable
    /\ ~ret.report.Destructive
    /\ \E n \in FieldNames : Conflict("FIELD_ADD", n) \in ret.report.Conflicts

\* C8: a SyncSchema whose proposal changes the type of a field of the
\* current schema fails and leaves the schema map, the table (schema, unique
\* indices, rows) and the schema file unchanged.
C8_IncompatibleSyncChangesNothing ==
    [][\A t \in TableNames, nf \in SchemaInputs :
          (/\ t \in DOMAIN Schemas
           /\ TypeChanged(Schemas[t].Fields, nf)
           /\ SyncSchema(t, nf)) =>
              /\ ret'.err.text = "incompatible schema change: "
              /\ UNCHANGED <<Schemas, Tables, Orphans, Key, File, SafetyFile,
                             SchemaFile, persistQ, now>>]_vars

\* A SyncSchema has been refused on a table that holds rows.
C8_Witness ==
    /\ ret.op = "SyncSchema"
    /\ ret.err.text = "incompatible schema change: "
    /\ \E t \in DOMAIN Tables : AllRows(t) # <<>>

\* The record lacks a field of the list.
Lacks(fields, record) == \E i \in DOMAIN fields : ~Has(record, fields[i].Name)

\* The record's value for field i, a unique field, is in that field's index.
TakenAt(table, record, i) ==
    LET field == table.Schema.Fields[i] IN
    /\ field.Unique
    /\ Has(record, field.Name)
    /\ record[field.Name] \in table.UniqueIndices[field.Name]

Taken(table, record) == \E i \in DOMAIN table.Schema.Fields : TakenAt(table, record, i)

\* What a successful Insert of record into table t has done.
Inserted(t, record) ==
    /\ \A i \in DOMAIN Tables[t].Schema.Fields :
          Has(record, Tables[t].Schema.Fields[i].Name)
    /\ LET before == Tables[t].HotHeap.Rows \o <<record>>
       IN \/ Tables'[t].HotHeap.Rows = before
          \/ /\ Tables'[t].HotHeap.Rows = <<>>
             /\ Tables'[t].SealedClumps[Len(Tables'[t].SealedClumps)].Rows = before
    /\ \A n \in UniqueNames(Tables[t].Schema.Fields) :
          Tables'[t].UniqueIndices[n] = Tables[t].UniqueIndices[n] \cup {record[n]}

\* C9 as claimed: an Insert of a row that lacks a schema field fails with
\* MissingField; an Insert of a complete row with a taken unique value fails
\* with UniqueConstraintViolation; both leave the table unchanged; a
\* successful Insert has appended a complete row and indexed its unique
\* values.
C9_InsertErrorsAsClaimed ==
    [][\A t \in TableNames, r \in RowInputs :
          (t \in DOMAIN Tables /\ Insert(t, r)) =>
              LET table == Tables[t] IN
              /\ Lacks(table.Schema.Fields, r) =>
                    /\ ret'.err.text = "missing field: "
                    /\ Tables' = Tables
              /\ (~Lacks(table.Schema.Fields, r) /\ Taken(table, r)) =>
                    /\ ret'.err.text = "unique constraint violation: "
                    /\ Tables' = Tables
              /\ ret'.err = Ok => Inserted(t, r)]_vars

\* C9 as amended: the checks run field by field in schema order, so a row
\* that lacks a field fails with MissingField for its first absent field
\* unless a unique field ahead of it holds a taken value, and then with
\* UniqueConstraintViolation; the rest as claimed.
C9_InsertErrorsInFieldOrder ==
    [][\A t \in TableNames, r \in RowInputs :
          (t \in DOMAIN Tables /\ Insert(t, r)) =>
              LET table == Tables[t]
                  fields == table.Schema.Fields
                  absent == {i \in DOMAIN fields : ~Has(r, fields[i].Name)}
                  taken == {i \in DOMAIN fields : TakenAt(table, r, i)}
                  Min(S) == CHOOSE i \in S : \A j \in S : i <= j
              IN /\ absent # {} =>
                    /\ Tables' = Tables
                    /\ IF \E i \in taken : i < Min(absent)
                       THEN ret'.err = Err("unique constraint violation: ",
                                           fields[Min(taken)].Name)
                       ELSE ret'.err = Err("missing field: ", fields[Min(absent)].Name)
                 /\ (absent = {} /\ taken # {}) =>
                    /\ ret'.err = Err("unique constraint violation: ",
                                      fields[Min(taken)].Name)
                    /\ Tables' = Tables
                 /\ (absent = {} /\ taken = {}) => ret'.err = Ok
                 /\ ret'.err = Ok => Inserted(t, r)]_vars

\* An Insert of a row that lacks "price" has failed with a unique constraint
\* violation on "id", on a table whose schema has both fields.
C9_Witness ==
    /\ ret.op = "Insert"
    /\ ret.err = Err("unique constraint violation: ", "id")
    /\ ~Has(ret.record, "price")
    /\ \E t \in DOMAIN Tables :
          \E i \in DOMAIN Tables[t].Schema.Fields :
              Tables[t].Schema.Fields[i].Name = "price"

\* The clumps of a file that a replay under the key reconstructs for a table
\* name: those of the whole records ahead of the first record cut short that
\* decrypt and deserialize, in file order.
Replayable(file, key, tableName) ==
    LET cut == {i \in DOMAIN file : ~file[i].Whole}
        end == IF cut = {} THEN Len(file)
               ELSE (CHOOSE i \in cut : \A j \in cut : i <= j) - 1
        Good(r) == r.TableName = tableName /\ r.Key = key /\ r.Json
        kept == SelectSeq(SubSeq(file, 1, end), Good)
    IN [i \in DOMAIN kept |-> kept[i].Clump]

RECURSIVE IsSubSeq(_, _)
IsSubSeq(a, b) ==
    IF a = <<>> THEN TRUE
    ELSE IF b = <<>> THEN FALSE
    ELSE IF Head(a) = Head(b) THEN IsSubSeq(Tail(a), Tail(b))
    ELSE IsSubSeq(a, Tail(b))

\* The clumps of a table in the data file, in file order.
FileClumps(t) ==
    LET OfTable(r) == r.TableName = t
        kept == SelectSeq(File, OfTable)
    IN [i \in DOMAIN kept |-> kept[i].Clump]

\* C11: the records of a table's SealedClumps are in the data file in the
\* order in which the clumps were sealed.
C11_FileOrderIsSealOrder ==
    \A t \in TableNames :
        t \in DOMAIN Tables => IsSubSeq(FileClumps(t), Tables[t].SealedClumps)

\* C12: after a successful Delete no row of the table, sealed or hot,
\* matches the filter; after a successful Update every row of the table that
\* matched the filter carries the patch values.
C12_UpdateDeleteReachEveryRow ==
    [][\A t \in TableNames, f \in Filters, ts \in Times :
          /\ (Delete(t, f, ts) /\ ret'.err = Ok) =>
                \A i \in DOMAIN AllRows(t)' : ~Matches(f, AllRows(t)'[i])
          /\ \A u \in Patches :
                (Update(t, f, u, ts) /\ ret'.err = Ok) =>
                    /\ Len(AllRows(t)') = Len(AllRows(t))
                    /\ \A i \in DOMAIN AllRows(t) :
                          Matches(f, AllRows(t)[i]) =>
                              \A k \in DOMAIN u : AllRows(t)'[i][k] = u[k]]_vars

\* C13: Flush on a HotHeap of k > 0 rows appends one SealedClump of those
\* rows in order, leaves an empty HotHeap and has appended the clump's record
\* to the data file when it returns; Flush on an empty HotHeap succeeds,
\* creates no clump and writes nothing.
C13_FlushSealsAndPersists ==
    [][\A t \in TableNames :
          (t \in DOMAIN Tables /\ Flush(t)) =>
              LET table == Tables[t]
                  after == Tables'[t]
                  rows == table.HotHeap.Rows
              IN /\ ret' = Returned("Flush", Ok)
                 /\ UNCHANGED persistQ
                 /\ IF rows = <<>>
                    THEN UNCHANGED <<Tables, File>>
                    ELSE /\ Len(after.SealedClumps) = Len(table.SealedClumps) + 1
                         /\ SubSeq(after.SealedClumps, 1, Len(table.SealedClumps))
                                = table.SealedClumps
                         /\ after.SealedClumps[Len(after.SealedClumps)].Rows = rows
                         /\ after.HotHeap.Rows = <<>>
                         /\ Len(File') = Len(File) + 1
                         /\ SubSeq(File', 1, Len(File)) = File
                         /\ File'[Len(File')].TableName = t
                         /\ File'[Len(File')].Clump
                                = after.SealedClumps[Len(after.SealedClumps)]]_vars

\* A Flush has sealed a HotHeap below capacity and its record is the last of
\* the data file.
C13_Witness ==
    /\ ret = Returned("Flush", Ok)
    /\ \E t \in DOMAIN Tables :
          /\ Tables[t].SealedClumps # <<>>
          /\ Tables[t].HotHeap.Rows = <<>>
          /\ File # <<>>
          /\ LET last == Tables[t].SealedClumps[Len(Tables[t].SealedClumps)]
             IN /\ Len(last.Rows) < Capacity
                /\ File[Len(File)].Clump = last

\* The rows of the SealedClumps in seal order, then the HotHeap rows,
\* collected one by one.
RECURSIVE RowsInOrder(_, _)
RowsInOrder(clumps, hot) ==
    IF clumps = <<>> THEN hot
    ELSE Head(clumps).Rows \o RowsInOrder(Tail(clumps), hot)

\* C14: DumpAsJSON returns the rows of the SealedClumps in seal order
\* followed by the HotHeap rows and changes no state; a successful Insert
\* puts exactly its row at the end of that sequence, a successful BulkInsert
\* its rows, and a seal (by capacity or by Flush) leaves it as it is.
C14_RowSequencePreserved ==
    [][\A t \in TableNames :
          t \in DOMAIN Tables =>
              LET before == RowsInOrder(Tables[t].SealedClumps, Tables[t].HotHeap.Rows)
                  after == RowsInOrder(Tables'[t].SealedClumps, Tables'[t].HotHeap.Rows)
              IN /\ DumpAsJSON(t) =>
                    /\ ret'.json.items = before
                    /\ UNCHANGED <<Schemas, Tables, Orphans, Key, File,
                                   SafetyFile, SchemaFile, persistQ, now>>
                 /\ \A r \in RowInputs :
                       Insert(t, r) =>
                           after = IF ret'.err = Ok THEN before \o <<r>> ELSE before
                 /\ \A rs \in Batches :
                       BulkInsert(t, rs) =>
                           after = IF ret'.err = Ok THEN before \o rs ELSE before
                 /\ Flush(t) => after = before
                 /\ PersistStep => after = before]_vars

\* DumpAsJSON has returned the rows of a table that holds a clump sealed by
\* capacity, a clump sealed by Flush and a HotHeap row.
C14_Witness ==
    /\ ret.op = "DumpAsJSON"
    /\ ret.err = Ok
    /\ \E t \in DOMAIN Tables :
          /\ Len(Tables[t].SealedClumps) >= 1
          /\ Tables[t].HotHeap.Rows # <<>>
          /\ ret.json.items = AllRows(t)
          /\ Len(ret.json.items) = MaxRows

\* C15: whenever ChangeKey returns an error, at whatever step, the key of
\* the database is the key it had before the call.
C15_FailedChangeKeyKeepsKey ==
    [][\A k \in NewKeys, mk \in MasterKeys, pem \in MasterKeys \cup {NoPem},
         fault \in Faults, at \in 1..MaxRows :
          (ChangeKey(k, mk, pem, fault, at) /\ ret'.err # Ok) => Key' = Key]_vars

\* The text of an error split at ": ", as the callers that pattern-match on
\* it split it (message.split(': ')).
Parts(err) ==
    LET body == CASE err.text = "table not found: " -> <<"table not found", err.name>>
                  [] err.text = "missing field: " -> <<"missing field", err.name>>
                  [] err.text = "unique constraint violation: " ->
                         <<"unique constraint violation", err.name>>
                  [] err.text = "duplicate value in batch for field: " ->
                         <<"duplicate value in batch for field", err.name>>
                  [] OTHER -> <<err.text>>
    IN IF "row" \in DOMAIN err THEN <<"row">> \o body ELSE body

\* The call that has just returned named a table that is not defined.
NotFoundCall(t) ==
    /\ t \notin DOMAIN Tables
    /\ \/ \E r \in RowInputs : Insert(t, r)
       \/ \E rs \in Batches : BulkInsert(t, rs)
       \/ \E f \in Filters, ts \in Times :
             Delete(t, f, ts) \/ \E u \in Patches : Update(t, f, u, ts)
       \/ Flush(t)
       \/ DumpAsJSON(t)

\* C16: a call that fails because its table is not defined returns
\* "table not found: <name>" with the table's name, and a missing-field or
\* unique-violation error reads "missing field: <name>" or
\* "unique constraint violation: <name>", the field's name being the text
\* after the first ": ".
C16_ErrorTextForms ==
    [][/\ \A t \in TableNames :
             NotFoundCall(t) => Parts(ret'.err) = <<"table not found", t>>
       /\ \A kind \in {"missing field", "unique constraint violation"} :
             (\E i \in DOMAIN Parts(ret'.err) : Parts(ret'.err)[i] = kind) =>
                 /\ Parts(ret'.err)[1] = kind
                 /\ Parts(ret'.err)[2] \in FieldNames]_vars

\* C17: whenever SyncSchema returns an error, for an incompatible change or
\* for a failure to rewrite the schema file, the schema map and the table's
\* schema and unique indices are as before the call; SyncSchema on a table
\* that is not defined returns a not-found error.
C17_SyncSchemaAllOrNothing ==
    [][\A t \in TableNames, nf \in SchemaInputs :
          (SyncSchema(t, nf) \/ \E fault \in SaveFaults : SyncSchemaSaveFails(t, nf, fault)) =>
              /\ ret'.err # Ok => UNCHANGED <<Schemas, Tables>>
              /\ t \notin DOMAIN Tables =>
                    ret'.err.text \in {"table not found: ", "table not found"}]_vars

\* C18: the backup of an affected row is in the safety log before Update or
\* Delete touches the row, so that an Update or Delete that returns the
\* error of the safety-log write leaves the HotHeap rows as they were.
C18_BackupBeforeMutation ==
    [][\A t \in TableNames, f \in Filters :
          (DeleteBackupFails(t, f) \/ \E u \in Patches : UpdateBackupFails(t, f, u)) =>
              Tables'[t].HotHeap.Rows = Tables[t].HotHeap.Rows]_vars

\* C19: under interleavings of Insert with DefineSchema and SyncSchema, no
\* index entry of a successful Insert is lost: when an Insert returns nil,
\* every unique index of its table holds the value of the row it appended.
C19_NoIndexEntryLost ==
    [][\A th \in Threads :
          (pc[th] = "append" /\ pc'[th] = "idle") =>
              LET t == call[th].table
                  record == call[th].record
              IN \A n \in UniqueNames(Tables'[t].Schema.Fields) :
                    /\ n \in DOMAIN Tables'[t].UniqueIndices
                    /\ Get(record, n) \in Tables'[t].UniqueIndices[n]]_vars

\* A call that holds the lock of table t and waits for db.Mu.
HoldsTableWaitsDb(th, t) ==
    /\ pc[th] = "backup"
    /\ call[th].table = t
    /\ tableMu[t] = th
    /\ dbMu \notin {Free, th}

\* A call that holds db.Mu and waits for the lock of table t.
HoldsDbWaitsTable(th, t) ==
    /\ dbMu = th
    /\ tableMu[t] \notin {Free, th}
    /\ \/ pc[th] = "scan" /\ RestoreTarget(th) = t
       \/ pc[th] = "tables" /\ t \in DOMAIN Tables

\* C20: the locking is deadlock-free: no call waits for the database lock
\* while it holds a table lock, while another call waits for that table lock
\* and holds the database lock.
C20_NoCircularWait ==
    \A a \in Threads, b \in Threads, t \in TableNames :
        ~(a # b /\ HoldsTableWaitsDb(a, t) /\ HoldsDbWaitsTable(b, t))

\* a is an initial segment of b.
IsPrefix(a, b) == Len(a) <= Len(b) /\ SubSeq(b, 1, Len(a)) = a

ReadableMatch(i, timestamp) ==
    /\ SafetyFile[i].Whole /\ SafetyFile[i].Key = Key /\ SafetyFile[i].Json
    /\ Truncate(SafetyFile[i].Timestamp) = Truncate(timestamp)

\* The effect of a Restore that re-appends the row of record i and reads no
\* further: one row more in one HotHeap, nothing else changed.
RestoredExactly(i) ==
    /\ SafetyFile[i].TableName \in DOMAIN Tables
    /\ Tables' = [Tables EXCEPT
                     ![SafetyFile[i].TableName].HotHeap.Rows = Append(@, SafetyFile[i].Data)]
    /\ ret'.read = i
    /\ UNCHANGED <<Schemas, Orphans, Key, File, SafetyFile, SchemaFile, persistQ, now>>

\* C22 as stated: a successful Restore(timestamp, true) re-appends the row of
\* the first record in safety-log order whose timestamp, truncated to the
\* second, equals the requested one, to the HotHeap of that record's table,
\* stops there and changes nothing else.
C22_RestoreFirstMatch ==
    [][\A ts \in Times :
          (Restore(ts, TRUE) /\ ret'.err = Ok) =>
              \E i \in DOMAIN SafetyFile :
                  /\ ReadableMatch(i, ts)
                  /\ \A j \in 1..(i - 1) : ~ReadableMatch(j, ts)
                  /\ RestoredExactly(i)]_vars

\* C22, amended: the record restored is the first one that carries the
\* requested second and names a table that is defined; records of the same
\* second whose table is not defined are passed over.
C22_RestoreFirstMatchOfDefinedTable ==
    [][\A ts \in Times :
          (Restore(ts, TRUE) /\ ret'.err = Ok) =>
              \E i \in DOMAIN SafetyFile :
                  /\ ReadableMatch(i, ts)
                  /\ \A j \in 1..(i - 1) :
                        ~(ReadableMatch(j, ts) /\ SafetyFile[j].TableName \in DOMAIN Tables)
                  /\ RestoredExactly(i)]_vars

\* A Restore has re-appended the row of the first of two records of the same
\* second, the two of different tables, both defined.
C22_Witness ==
    /\ ret.op = "Restore" /\ ret.err = Ok /\ ret.read = 1
    /\ Len(SafetyFile) >= 2
    /\ SafetyFile[2].Whole /\ SafetyFile[2].Key = Key /\ SafetyFile[2].Json
    /\ Truncate(SafetyFile[2].Timestamp) = Truncate(SafetyFile[1].Timestamp)
    /\ SafetyFile[1].TableName # SafetyFile[2].TableName
    /\ {SafetyFile[1].TableName, SafetyFile[2].TableName} \subseteq DOMAIN Tables
    /\ Tables[SafetyFile[1].TableName].HotHeap.Rows = <<SafetyFile[1].Data>>
    /\ Tables[SafetyFile[2].TableName].HotHeap.Rows = <<>>

\* The records of the safety log a tolerant scan for timestamp may restore.
Restorable(timestamp) ==
    {i \in DOMAIN SafetyFile :
        ReadableMatch(i, timestamp) /\ SafetyFile[i].TableName \in DOMAIN Tables}

\* C23: a confirmed Restore scans the whole safety log tolerantly: a record
\* that cannot be decoded, decrypted or deserialized, a trailing record cut
\* short included, is skipped; the first record that matches is restored
\* wherever such records lie before it, and when none matches the call fails
\* with "recovery point not found" and changes nothing.
C23_RestoreScansTolerantly ==
    [][\A ts \in Times :
          Restore(ts, TRUE) =>
              IF Restorable(ts) = {}
              THEN /\ ret'.err = Err("recovery point not found", "")
                   /\ UNCHANGED <<Schemas, Tables, Orphans, Key, File, SafetyFile,
                                  SchemaFile, persistQ, now>>
              ELSE /\ ret'.err = Ok
                   /\ \E i \in Restorable(ts) :
                         /\ \A j \in Restorable(ts) : i <= j
                         /\ RestoredExactly(i)]_vars

\* The values field n takes over the rows of the clumps.
ClumpValues(clumps, n) ==
    {row[n] : row \in {r \in UNION {Range(clumps[i].Rows) : i \in DOMAIN clumps} : Has(r, n)}}

\* A step that defines table t takes over the orphans held for t: they are
\* its SealedClumps, in their order, the orphan entry is gone and the unique
\* indices hold the values of the unique fields of their rows.
Reattached(t) ==
    (t \notin DOMAIN Tables /\ t \in DOMAIN Tables' /\ t \in DOMAIN Orphans) =>
        /\ Tables'[t].SealedClumps = Orphans[t]
        /\ t \notin DOMAIN Orphans'
        /\ \A n \in UniqueNames(Tables'[t].Schema.Fields) :
              ClumpValues(Orphans[t], n) \subseteq Tables'[t].UniqueIndices[n]

\* Every clump replayed from the data file for table name t is held once,
\* by the table or by the orphans, never by both.
HeldOnce(t) ==
    /\ ~(t \in DOMAIN Tables /\ t \in DOMAIN Orphans)
    /\ Held(t) = Replayable(File, Key, t)

\* C24: when DefineSchema, or the schema replay of Open, defines a table that
\* has orphans, the orphans become the table's SealedClumps in replay order,
\* the orphan entry is removed and the indices hold the unique-field values of
\* the reattached rows; every replayed clump is at all times held in exactly
\* one place, a table's SealedClumps or the orphan set.
C24_OrphansReattached ==
    /\ [](\A t \in TableNames : HeldOnce(t))
    /\ [][\A t \in TableNames : Reattached(t)]_vars

\* A table holds, after the schema replay of Open or a DefineSchema, a
\* replayed clump whose id is in its unique index, and no orphan is left.
C24_Witness ==
    /\ pc[1] = "idle"
    /\ Orphans = EmptyMap
    /\ \E t \in DOMAIN Tables :
          /\ Len(Tables[t].SealedClumps) = 2
          /\ "id" \in DOMAIN Tables[t].UniqueIndices
          /\ Tables[t].UniqueIndices["id"] # {}

\* C25: between calls, when no operation holds a table's lock, the HotHeap
\* of every table holds strictly fewer rows than its capacity, after any
\* sequence of Insert, BulkInsert, Update, Delete, Flush and Restore.
C25_HotHeapBelowCapacity ==
    \A t \in DOMAIN Tables :
        tableMu[t] = Free =>
            Len(Tables[t].HotHeap.Rows) < Tables[t].HotHeap.MaxRows

\* C26: a successful BulkInsert adds at most one SealedClump whatever the
\* size of the batch: when the HotHeap with the whole batch appended is at or
\* over capacity, one clump holds the rows the HotHeap had and then every row
\* of the batch, records that many rows, and the HotHeap is left empty;
\* otherwise no clump is added and the HotHeap holds them all.
C26_BulkInsertSealsOnce ==
    [][\A t \in TableNames, rs \in Batches :
          (t \in DOMAIN Tables /\ BulkInsert(t, rs) /\ ret'.err = Ok) =>
              LET old == Tables[t]
                  new == Tables'[t]
                  all == old.HotHeap.Rows \o rs
                  n == Len(old.SealedClumps)
              IN IF Len(all) >= old.HotHeap.MaxRows
                 THEN /\ Len(new.SealedClumps) = n + 1
                      /\ SubSeq(new.SealedClumps, 1, n) = old.SealedClumps
                      /\ new.SealedClumps[n + 1].Rows = all
                      /\ new.SealedClumps[n + 1].RowCount = Len(all)
                      /\ new.HotHeap.Rows = <<>>
                 ELSE /\ new.SealedClumps = old.SealedClumps
                      /\ new.HotHeap.Rows = all]_vars

\* A BulkInsert has sealed one clump of more rows than the capacity.
C26_Witness ==
    /\ ret = Returned("BulkInsert", Ok)
    /\ \E t \in DOMAIN Tables :
          /\ Len(Tables[t].SealedClumps) = 1
          /\ Tables[t].SealedClumps[1].RowCount > Capacity
          /\ Tables[t].HotHeap.Rows = <<>>

\* C27: after a successful ChangeKey the data file holds exactly one record
\* under the new key for every SealedClump the database held when the call
\* started, of every table name, and no record under another key; the key in
\* memory is the new one and the tables and their rows are as they were.
C27_ChangeKeyRewritesEveryClump ==
    [][\A k \in NewKeys, mk \in MasterKeys :
          (ChangeKey(k, mk, mk, "none", 1) /\ ret'.err = Ok) =>
              /\ Key' = k
              /\ Tables' = Tables
              /\ \A i \in DOMAIN File' :
                    File'[i].Key = k /\ File'[i].Whole /\ File'[i].Json
              /\ \A t \in TableNames : Replayable(File', k, t) = Held(t)]_vars

\* The records of a table in the data file.
RecordsOf(t) == SelectSeq(File, LAMBDA r : r.TableName = t)

\* C29: every SealedClump is appended to the data file at most once and under
\* the key that is current: also when ChangeKey ran while the persistence of an
\* auto-seal or of Flush was pending, the file holds no two records for one
\* clump and no record under the old key.
C29_ClumpPersistedOnceUnderCurrentKey ==
    /\ \A t \in DOMAIN Tables : Len(RecordsOf(t)) <= Len(Tables[t].SealedClumps)
    /\ \A i \in DOMAIN File : File[i].Key = Key

\* C28: once the concurrent DefineSchema and SyncSchema calls have completed,
\* the schema file holds the serialization of the schema map in memory: no
\* rewrite has put an older snapshot over a newer one.
C28_SchemaFileMatchesMemory ==
    (\A th \in Threads : pc[th] = "idle") => SchemaFile = SaveSchemas(Schemas)

\* C30: in every reachable state no two rows of a table, sealed or hot, hold
\* the same value in a field that the table's current schema declares unique.
C30_UniqueFieldsHoldDistinctValues ==
    \A t \in DOMAIN Tables :
        \A n \in UniqueNames(Tables[t].Schema.Fields) :
            \A i, j \in DOMAIN AllRows(t) :
                (i # j /\ Has(AllRows(t)[i], n) /\ Has(AllRows(t)[j], n))
                    => AllRows(t)[i][n] # AllRows(t)[j][n]

\* C31: in every reachable state the names of the schema map are the names of
\* the table map, and the schema of each table is the schema registered under
\* its name, after any sequence of DefineSchema and SyncSchema calls.
C31_SchemaMapMatchesTableMap ==
    /\ DOMAIN Schemas = DOMAIN Tables
    /\ \A t \in DOMAIN Tables : Tables[t].Schema = Schemas[t]

\* C32: SyncSchema never installs a schema that changes the type of a field of
\* the schema that is current when it installs, also when another DefineSchema
\* or SyncSchema on the table ran between its compatibility check and its
\* installation.
C32_SyncSchemaKeepsFieldTypes ==
    [][\A th \in Threads :
          (SyncSection(th) /\ call[th].table \in DOMAIN Schemas) =>
              LET old == Schemas[call[th].table].Fields
                  new == Schemas'[call[th].table].Fields
              IN \A i \in DOMAIN old, j \in DOMAIN new :
                    old[i].Name = new[j].Name => old[i].Type = new[j].Type]_vars

====
